---- MODULE Spec2Model ----
(***************************************************************************)
(* Model of the pinyin decomposition engine of f3rmion/hmm                 *)
(* (package pinyin: Parser.Parse, extractTone, extractInitialFinal,        *)
(* extractWithInitial, matchFinal, isConsonant).                           *)
(*                                                                         *)
(* A Go string is modelled as the sequence of its Unicode codepoints, each *)
(* codepoint named by an ASCII token: a letter names itself, "u:" is       *)
(* u-umlaut (U+00FC), and a vowel followed by a digit 1..4 is that vowel   *)
(* under the macron, acute, caron or grave tone mark: "a3" is a-caron      *)
(* (U+01CE), "u:3" is u-umlaut-caron (U+01DA), "A3" the upper-case         *)
(* A-caron (U+01CD).  The syllable written h-(a-caron)-o is                *)
(* <<"h", "a3", "o">>.                                                     *)
(* The inputs are valid UTF-8, for which the byte-wise operations of the   *)
(* code (HasPrefix, TrimPrefix, HasSuffix, ==, pinyin[0], pinyin[1:]) act  *)
(* on whole codepoints: every prefix, suffix and index the code uses is    *)
(* ASCII or a whole encoded codepoint.                                     *)
(***************************************************************************)
EXTENDS Naturals, Integers, Sequences, FiniteSets, TLC

VARIABLES
  pc,      \* "call": a function is about to be called with arg; "done": Parse
           \* has returned; "actor", "set": GetActorID, GetSetID has returned
  arg,     \* the string given to Parse, GetActorID or GetSetID
  pinyin,  \* Parse's variable pinyin (the parameter, reassigned by extractTone)
  result,  \* Parse's variable result, the ParsedPinyin it returns
  id,      \* what GetActorID or GetSetID returned
  callerPc,      \* for each caller of Parse, where its call stands: "idle",
                 \* "tone" (in the loop of extractTone), "split" (before
                 \* extractInitialFinal), "ret" (about to return)
  callerArg,     \* for each caller, the string it gave to Parse
  frames,        \* for each stack frame, the variables tone and result and
                 \* the position of the range loop of extractTone
  callerPinyin,  \* for each caller, Parse's variable pinyin
  callerResult,  \* for each caller, Parse's variable result
  returned,      \* the (argument, returned value) pairs of the calls so far
  app,       \* the AppModel of the unified TUI
  running,   \* whether the TUI runs: no Update has returned tea.Quit
  inFlight,  \* the kinds of message that commands returned by Update have
             \* yet to deliver: "file" (FileSelectedMsg), "package"
             \* (PackageLoadedMsg), "generate" (learnLLMResultMsg), "tick"
             \* (learnClearCopiedMsg)
  lastMsg,   \* the message of the last Update: its type, its key, and the
             \* view whose Update it was handed to, if any
  learn,     \* a LearnModel whose Update is called directly
  picker,    \* a FilePickerModel whose Update is called directly, and
             \* whether a call of it has panicked
  browse,    \* a BrowseModel, run on its own or as the AppModel's browseView
  requests   \* the commands of the Browse view that have yet to deliver
             \* their message

\* The variables of one call of a function of package pinyin.
callVars == <<pc, arg, pinyin, result, id>>

\* The variables of the callers that use one Parser at the same time.
callerVars ==
  <<callerPc, callerArg, frames, callerPinyin, callerResult, returned>>

\* The variables of the unified TUI.
tuiVars == <<app, running, inFlight, lastMsg, learn>>

\* The variables of the views that are run on their own.
viewVars == <<picker, browse, requests>>

vars == <<callVars, callerVars, tuiVars, viewVars>>

\* ------------------------------------------------------------------ bounds

\* Longest syllable of the exhaustive part of the input domain.
MaxLen == 3

\* ------------------------------------------------------------- hmm.Tone

Tone1 == 1
Tone2 == 2
Tone3 == 3
Tone4 == 4
Tone5 == 5
ToneUnknown == 0

\* ---------------------------------------------------- package strings

\* strings.HasPrefix(s, prefix)
HasPrefix(s, prefix) ==
  /\ Len(s) >= Len(prefix)
  /\ SubSeq(s, 1, Len(prefix)) = prefix

\* strings.HasSuffix(s, suffix)
HasSuffix(s, suffix) ==
  /\ Len(s) >= Len(suffix)
  /\ SubSeq(s, Len(s) - Len(suffix) + 1, Len(s)) = suffix

\* strings.TrimPrefix(s, prefix): s without the prefix when it has it, else s
TrimPrefix(s, prefix) ==
  IF HasPrefix(s, prefix) THEN SubSeq(s, Len(prefix) + 1, Len(s)) ELSE s

\* The upper-case codepoints of the model's universe and, at the same index,
\* what unicode.ToLower maps each to.
UpperRunes ==
  << "A", "B", "C", "D", "E", "F", "G", "H", "I", "J", "K", "L", "M",
     "N", "O", "P", "Q", "R", "S", "T", "U", "V", "W", "X", "Y", "Z",
     "U:", "A1", "A2", "A3", "A4", "E1", "E2", "E3", "E4", "I1", "I2", "I3", "I4",
     "O1", "O2", "O3", "O4", "U1", "U2", "U3", "U4", "U:1", "U:2", "U:3", "U:4" >>

LowerRunes ==
  << "a", "b", "c", "d", "e", "f", "g", "h", "i", "j", "k", "l", "m",
     "n", "o", "p", "q", "r", "s", "t", "u", "v", "w", "x", "y", "z",
     "u:", "a1", "a2", "a3", "a4", "e1", "e2", "e3", "e4", "i1", "i2", "i3", "i4",
     "o1", "o2", "o3", "o4", "u1", "u2", "u3", "u4", "u:1", "u:2", "u:3", "u:4" >>

\* The lower-case codepoint of each upper-case codepoint.
LowerOf ==
  [r \in {UpperRunes[k] : k \in 1..Len(UpperRunes)} |->
     LowerRunes[CHOOSE k \in 1..Len(UpperRunes) : UpperRunes[k] = r]]

\* unicode.ToLower(r)
ToLowerRune(r) == IF r \in DOMAIN LowerOf THEN LowerOf[r] ELSE r

\* strings.ToLower(s)
ToLower(s) == [k \in 1..Len(s) |-> ToLowerRune(s[k])]

\* ---------------------------------------------------------- extractTone

\* toneMarks with a slip in one entry: e-grave entered with the value of
\* e-caron.
toneMarksSlip ==
  "a1" :> [base |-> "a", tone |-> 1] @@ "a2" :> [base |-> "a", tone |-> 2] @@
  "a3" :> [base |-> "a", tone |-> 3] @@ "a4" :> [base |-> "a", tone |-> 4] @@
  "e1" :> [base |-> "e", tone |-> 1] @@ "e2" :> [base |-> "e", tone |-> 2] @@
  "e3" :> [base |-> "e", tone |-> 3] @@ "e4" :> [base |-> "e", tone |-> 3] @@
  "i1" :> [base |-> "i", tone |-> 1] @@ "i2" :> [base |-> "i", tone |-> 2] @@
  "i3" :> [base |-> "i", tone |-> 3] @@ "i4" :> [base |-> "i", tone |-> 4] @@
  "o1" :> [base |-> "o", tone |-> 1] @@ "o2" :> [base |-> "o", tone |-> 2] @@
  "o3" :> [base |-> "o", tone |-> 3] @@ "o4" :> [base |-> "o", tone |-> 4] @@
  "u1" :> [base |-> "u", tone |-> 1] @@ "u2" :> [base |-> "u", tone |-> 2] @@
  "u3" :> [base |-> "u", tone |-> 3] @@ "u4" :> [base |-> "u", tone |-> 4] @@
  "u:1" :> [base |-> "u:", tone |-> 1] @@ "u:2" :> [base |-> "u:", tone |-> 2] @@
  "u:3" :> [base |-> "u:", tone |-> 3] @@ "u:4" :> [base |-> "u:", tone |-> 4]

\* The map literal toneMarks of extractTone.
toneMarks ==
  "a1" :> [base |-> "a", tone |-> Tone1] @@ "a2" :> [base |-> "a", tone |-> Tone2] @@
  "a3" :> [base |-> "a", tone |-> Tone3] @@ "a4" :> [base |-> "a", tone |-> Tone4] @@
  "e1" :> [base |-> "e", tone |-> Tone1] @@ "e2" :> [base |-> "e", tone |-> Tone2] @@
  "e3" :> [base |-> "e", tone |-> Tone3] @@ "e4" :> [base |-> "e", tone |-> Tone4] @@
  "i1" :> [base |-> "i", tone |-> Tone1] @@ "i2" :> [base |-> "i", tone |-> Tone2] @@
  "i3" :> [base |-> "i", tone |-> Tone3] @@ "i4" :> [base |-> "i", tone |-> Tone4] @@
  "o1" :> [base |-> "o", tone |-> Tone1] @@ "o2" :> [base |-> "o", tone |-> Tone2] @@
  "o3" :> [base |-> "o", tone |-> Tone3] @@ "o4" :> [base |-> "o", tone |-> Tone4] @@
  "u1" :> [base |-> "u", tone |-> Tone1] @@ "u2" :> [base |-> "u", tone |-> Tone2] @@
  "u3" :> [base |-> "u", tone |-> Tone3] @@ "u4" :> [base |-> "u", tone |-> Tone4] @@
  "u:1" :> [base |-> "u:", tone |-> Tone1] @@ "u:2" :> [base |-> "u:", tone |-> Tone2] @@
  "u:3" :> [base |-> "u:", tone |-> Tone3] @@ "u:4" :> [base |-> "u:", tone |-> Tone4]

\* The loop of extractTone with a tone that is set once: the first mark wins.
RECURSIVE extractToneLoopFirstWins(_, _, _, _)
extractToneLoopFirstWins(s, k, tone, built) ==
  IF k > Len(s) THEN [tone |-> tone, result |-> built]
  ELSE IF s[k] \in DOMAIN toneMarks
       THEN extractToneLoopFirstWins(s, k + 1,
                                     IF tone = ToneUnknown
                                     THEN toneMarks[s[k]].tone ELSE tone,
                                     Append(built, toneMarks[s[k]].base))
       ELSE extractToneLoopFirstWins(s, k + 1, tone, Append(built, s[k]))

\* The loop without its else branch: a codepoint that is no key of toneMarks
\* is not written to the builder.
RECURSIVE extractToneLoopKeysOnly(_, _, _, _)
extractToneLoopKeysOnly(s, k, tone, built) ==
  IF k > Len(s) THEN [tone |-> tone, result |-> built]
  ELSE IF s[k] \in DOMAIN toneMarks
       THEN extractToneLoopKeysOnly(s, k + 1, toneMarks[s[k]].tone,
                                    Append(built, toneMarks[s[k]].base))
       ELSE extractToneLoopKeysOnly(s, k + 1, tone, built)

\* The loop `for _, r := range pinyin` of extractTone from codepoint k on, with
\* the loop's variables tone and result (the strings.Builder) as they stand.
RECURSIVE extractToneLoop(_, _, _, _)
extractToneLoop(s, k, tone, built) ==
  IF k > Len(s) THEN [tone |-> tone, result |-> built]
  ELSE IF s[k] \in DOMAIN toneMarks
       THEN extractToneLoop(s, k + 1, toneMarks[s[k]].tone,
                            Append(built, toneMarks[s[k]].base))
       ELSE extractToneLoop(s, k + 1, tone, Append(built, s[k]))

\* extractTone without its last step, the default of an unmarked syllable to
\* Tone5: the sentinel is returned.
extractToneNoDefault(s) ==
  LET loop == extractToneLoop(s, 1, ToneUnknown, << >>)
  IN  [tone |-> loop.tone, pinyin |-> loop.result]

\* extractTone(pinyin) (hmm.Tone, string)
extractTone(s) ==
  LET loop == extractToneLoop(s, 1, ToneUnknown, << >>)
  IN  [tone   |-> IF loop.tone = ToneUnknown THEN Tone5 ELSE loop.tone,
       pinyin |-> loop.result]

\* ----------------------------------------------------------- matchFinal

\* The slice literal hmmFinals of extractInitialFinal ("HMM finals (13 total)").
hmmFinals ==
  << <<"o", "n", "g">>, <<"a", "n", "g">>, <<"e", "n", "g">>, <<"i", "n", "g">>,
     <<"a", "i">>, <<"e", "i">>, <<"a", "o">>, <<"o", "u">>, <<"a", "n">>, <<"e", "n">>,
     <<"a">>, <<"o">>, <<"e">> >>

\* matchFinal without its last test: a residual that is a bare glide is
\* returned as it is.
matchFinalKeepGlide(rest, finals) ==
  IF \E k \in 1..Len(finals) : rest = finals[k]
  THEN finals[CHOOSE k \in 1..Len(finals) :
                /\ rest = finals[k]
                /\ \A j \in 1..(k - 1) : rest # finals[j]]
  ELSE IF HasSuffix(rest, <<"i", "n", "g">>) THEN <<"e", "n", "g">>
  ELSE IF rest = <<"i", "n">> \/ HasSuffix(rest, <<"i", "n">>) THEN <<"e", "n">>
  ELSE IF rest = <<"u", "n">> \/ HasSuffix(rest, <<"u", "n">>) THEN <<"e", "n">>
  ELSE IF rest = <<"i", "o", "n", "g">> \/ HasSuffix(rest, <<"i", "o", "n", "g">>)
       THEN <<"o", "n", "g">>
  ELSE IF rest = <<"n">> THEN <<"e", "n">>
  ELSE IF rest = <<"n", "g">> THEN <<"e", "n", "g">>
  ELSE rest

\* matchFinal without its rule for "in".
matchFinalNoIn(rest, finals) ==
  IF \E k \in 1..Len(finals) : rest = finals[k]
  THEN finals[CHOOSE k \in 1..Len(finals) :
                /\ rest = finals[k]
                /\ \A j \in 1..(k - 1) : rest # finals[j]]
  ELSE IF HasSuffix(rest, <<"i", "n", "g">>) THEN <<"e", "n", "g">>
  ELSE IF rest = <<"u", "n">> \/ HasSuffix(rest, <<"u", "n">>) THEN <<"e", "n">>
  ELSE IF rest = <<"i", "o", "n", "g">> \/ HasSuffix(rest, <<"i", "o", "n", "g">>)
       THEN <<"o", "n", "g">>
  ELSE IF rest = <<"n">> THEN <<"e", "n">>
  ELSE IF rest = <<"n", "g">> THEN <<"e", "n", "g">>
  ELSE IF rest = << >> \/ rest = <<"i">> \/ rest = <<"u">> \/ rest = <<"u:">>
       THEN << >>
  ELSE rest

\* matchFinal without its rule for the bare coda "n".
matchFinalNoN(rest, finals) ==
  IF \E k \in 1..Len(finals) : rest = finals[k]
  THEN finals[CHOOSE k \in 1..Len(finals) :
                /\ rest = finals[k]
                /\ \A j \in 1..(k - 1) : rest # finals[j]]
  ELSE IF HasSuffix(rest, <<"i", "n", "g">>) THEN <<"e", "n", "g">>
  ELSE IF rest = <<"i", "n">> \/ HasSuffix(rest, <<"i", "n">>) THEN <<"e", "n">>
  ELSE IF rest = <<"u", "n">> \/ HasSuffix(rest, <<"u", "n">>) THEN <<"e", "n">>
  ELSE IF rest = <<"i", "o", "n", "g">> \/ HasSuffix(rest, <<"i", "o", "n", "g">>)
       THEN <<"o", "n", "g">>
  ELSE IF rest = <<"n", "g">> THEN <<"e", "n", "g">>
  ELSE IF rest = << >> \/ rest = <<"i">> \/ rest = <<"u">> \/ rest = <<"u:">>
       THEN << >>
  ELSE rest

\* matchFinal that tries its rule for "ing" before the exact match.
matchFinalIngFirst(rest, finals) ==
  IF HasSuffix(rest, <<"i", "n", "g">>) THEN <<"e", "n", "g">>
  ELSE IF \E k \in 1..Len(finals) : rest = finals[k]
  THEN finals[CHOOSE k \in 1..Len(finals) :
                /\ rest = finals[k]
                /\ \A j \in 1..(k - 1) : rest # finals[j]]
  ELSE IF HasSuffix(rest, <<"i", "n", "g">>) THEN <<"e", "n", "g">>
  ELSE IF rest = <<"i", "n">> \/ HasSuffix(rest, <<"i", "n">>) THEN <<"e", "n">>
  ELSE IF rest = <<"u", "n">> \/ HasSuffix(rest, <<"u", "n">>) THEN <<"e", "n">>
  ELSE IF rest = <<"i", "o", "n", "g">> \/ HasSuffix(rest, <<"i", "o", "n", "g">>)
       THEN <<"o", "n", "g">>
  ELSE IF rest = <<"n">> THEN <<"e", "n">>
  ELSE IF rest = <<"n", "g">> THEN <<"e", "n", "g">>
  ELSE IF rest = << >> \/ rest = <<"i">> \/ rest = <<"u">> \/ rest = <<"u:">>
       THEN << >>
  ELSE rest

\* matchFinal(rest, finals) string
matchFinal(rest, finals) ==
  IF \E k \in 1..Len(finals) : rest = finals[k]
  THEN finals[CHOOSE k \in 1..Len(finals) :
                /\ rest = finals[k]
                /\ \A j \in 1..(k - 1) : rest # finals[j]]
  ELSE IF HasSuffix(rest, <<"i", "n", "g">>) THEN <<"e", "n", "g">>
  ELSE IF rest = <<"i", "n">> \/ HasSuffix(rest, <<"i", "n">>) THEN <<"e", "n">>
  ELSE IF rest = <<"u", "n">> \/ HasSuffix(rest, <<"u", "n">>) THEN <<"e", "n">>
  ELSE IF rest = <<"i", "o", "n", "g">> \/ HasSuffix(rest, <<"i", "o", "n", "g">>)
       THEN <<"o", "n", "g">>
  ELSE IF rest = <<"n">> THEN <<"e", "n">>
  ELSE IF rest = <<"n", "g">> THEN <<"e", "n", "g">>
  ELSE IF rest = << >> \/ rest = <<"i">> \/ rest = <<"u">> \/ rest = <<"u:">>
       THEN << >>
  ELSE rest

\* ---------------------------------------------------------- isConsonant

\* consonants with the letter h left out of the literal.
consonantsNoH ==
  { "b", "p", "m", "f", "d", "t", "n", "l", "g", "k", "j", "q", "x",
    "z", "c", "s", "r" }

\* The consonants with the vowel "a" among them.
consonantsWithA ==
  { "b", "p", "m", "f", "d", "t", "n", "l", "g", "k", "h", "j", "q", "x",
    "z", "c", "s", "r", "a" }

\* The codepoints of the string literal consonants of isConsonant,
\* "bpmfdtnlgkhjqxzhchshrzcs".
consonants ==
  { "b", "p", "m", "f", "d", "t", "n", "l", "g", "k", "h", "j", "q", "x",
    "z", "c", "s", "r" }

\* isConsonant(r rune) bool.  The caller passes rune(pinyin[0]), the first
\* BYTE of the string: for a codepoint outside ASCII that byte is 0x80..0xFF,
\* which unicode.ToLower never maps to a letter of consonants, and neither is
\* the codepoint itself, so applying the test to the codepoint gives the same
\* answer.
isConsonant(r) == ToLowerRune(r) \in consonants

\* --------------------------------------------------- extractWithInitial

\* fakeI without the three clusters.
fakeISingleLetters == { <<"r">>, <<"z">>, <<"c">>, <<"s">> }

\* The map literal fakeI of extractWithInitial (its keys; every value is true).
fakeI ==
  { <<"z", "h">>, <<"c", "h">>, <<"s", "h">>, <<"r">>, <<"z">>, <<"c">>, <<"s">> }

\* extractWithInitial without the ASCII substitute: only u-umlaut itself is
\* taken for the u-umlaut glide, "v" is not.
extractWithInitialNoV(consonant, rest, finals) ==
  IF Len(rest) = 0
  THEN [initial |-> consonant, final |-> << >>]
  ELSE IF consonant \in {<<"j">>, <<"q">>, <<"x">>} /\ HasPrefix(rest, <<"u">>)
  THEN IF rest = <<"u">>
       THEN [initial |-> consonant \o <<"u">>, final |-> << >>]
       ELSE [initial |-> consonant \o <<"u">>,
             final   |-> matchFinal(TrimPrefix(rest, <<"u">>), finals)]
  ELSE IF consonant \in {<<"j">>, <<"q">>, <<"x">>} /\ HasPrefix(rest, <<"i">>)
  THEN IF rest = <<"i">>
       THEN [initial |-> consonant \o <<"i">>, final |-> << >>]
       ELSE [initial |-> consonant \o <<"i">>,
             final   |-> matchFinal(TrimPrefix(rest, <<"i">>), finals)]
  ELSE IF HasPrefix(rest, <<"u:">>)
  THEN IF rest = <<"u:">>
       THEN [initial |-> consonant \o <<"u:">>, final |-> << >>]
       ELSE [initial |-> consonant \o <<"u:">>,
             final   |-> matchFinal(TrimPrefix(rest, <<"u:">>), finals)]
  ELSE IF HasPrefix(rest, <<"i">>) /\ consonant \notin fakeI
  THEN IF rest = <<"i">>
       THEN [initial |-> consonant \o <<"i">>, final |-> << >>]
       ELSE [initial |-> consonant \o <<"i">>,
             final   |-> matchFinal(TrimPrefix(rest, <<"i">>), finals)]
  ELSE IF /\ HasPrefix(rest, <<"u">>)
          /\ consonant # <<"j">> /\ consonant # <<"q">> /\ consonant # <<"x">>
  THEN IF rest = <<"u">>
       THEN [initial |-> consonant \o <<"u">>, final |-> << >>]
       ELSE [initial |-> consonant \o <<"u">>,
             final   |-> matchFinal(TrimPrefix(rest, <<"u">>), finals)]
  ELSE [initial |-> consonant, final |-> matchFinal(rest, finals)]

\* extractWithInitial whose i-class branch moves the "i" into the initial and
\* forgets to trim it from what it gives to matchFinal.
extractWithInitialKeepI(consonant, rest, finals) ==
  IF Len(rest) = 0
  THEN [initial |-> consonant, final |-> << >>]
  ELSE IF consonant \in {<<"j">>, <<"q">>, <<"x">>} /\ HasPrefix(rest, <<"u">>)
  THEN IF rest = <<"u">>
       THEN [initial |-> consonant \o <<"u">>, final |-> << >>]
       ELSE [initial |-> consonant \o <<"u">>,
             final   |-> matchFinal(TrimPrefix(rest, <<"u">>), finals)]
  ELSE IF consonant \in {<<"j">>, <<"q">>, <<"x">>} /\ HasPrefix(rest, <<"i">>)
  THEN IF rest = <<"i">>
       THEN [initial |-> consonant \o <<"i">>, final |-> << >>]
       ELSE [initial |-> consonant \o <<"i">>,
             final   |-> matchFinal(TrimPrefix(rest, <<"i">>), finals)]
  ELSE IF HasPrefix(rest, <<"u:">>) \/ HasPrefix(rest, <<"v">>)
  THEN IF rest = <<"u:">> \/ rest = <<"v">>
       THEN [initial |-> consonant \o <<"u:">>, final |-> << >>]
       ELSE [initial |-> consonant \o <<"u:">>,
             final   |-> matchFinal(TrimPrefix(TrimPrefix(rest, <<"u:">>), <<"v">>),
                                    finals)]
  ELSE IF HasPrefix(rest, <<"i">>) /\ consonant \notin fakeI
  THEN IF rest = <<"i">>
       THEN [initial |-> consonant \o <<"i">>, final |-> << >>]
       ELSE [initial |-> consonant \o <<"i">>,
             final   |-> matchFinal(rest, finals)]
  ELSE IF /\ HasPrefix(rest, <<"u">>)
          /\ consonant # <<"j">> /\ consonant # <<"q">> /\ consonant # <<"x">>
  THEN IF rest = <<"u">>
       THEN [initial |-> consonant \o <<"u">>, final |-> << >>]
       ELSE [initial |-> consonant \o <<"u">>,
             final   |-> matchFinal(TrimPrefix(rest, <<"u">>), finals)]
  ELSE [initial |-> consonant, final |-> matchFinal(rest, finals)]

\* extractWithInitial whose i-class branch returns a remainder that is "i"
\* alone as the final, after the bare consonant.
extractWithInitialBareI(consonant, rest, finals) ==
  IF Len(rest) = 0
  THEN [initial |-> consonant, final |-> << >>]
  ELSE IF consonant \in {<<"j">>, <<"q">>, <<"x">>} /\ HasPrefix(rest, <<"u">>)
  THEN IF rest = <<"u">>
       THEN [initial |-> consonant \o <<"u">>, final |-> << >>]
       ELSE [initial |-> consonant \o <<"u">>,
             final   |-> matchFinal(TrimPrefix(rest, <<"u">>), finals)]
  ELSE IF consonant \in {<<"j">>, <<"q">>, <<"x">>} /\ HasPrefix(rest, <<"i">>)
  THEN IF rest = <<"i">>
       THEN [initial |-> consonant \o <<"i">>, final |-> << >>]
       ELSE [initial |-> consonant \o <<"i">>,
             final   |-> matchFinal(TrimPrefix(rest, <<"i">>), finals)]
  ELSE IF HasPrefix(rest, <<"u:">>) \/ HasPrefix(rest, <<"v">>)
  THEN IF rest = <<"u:">> \/ rest = <<"v">>
       THEN [initial |-> consonant \o <<"u:">>, final |-> << >>]
       ELSE [initial |-> consonant \o <<"u:">>,
             final   |-> matchFinal(TrimPrefix(TrimPrefix(rest, <<"u:">>), <<"v">>),
                                    finals)]
  ELSE IF HasPrefix(rest, <<"i">>) /\ consonant \notin fakeI
  THEN IF rest = <<"i">>
       THEN [initial |-> consonant, final |-> <<"i">>]
       ELSE [initial |-> consonant \o <<"i">>,
             final   |-> matchFinal(TrimPrefix(rest, <<"i">>), finals)]
  ELSE IF /\ HasPrefix(rest, <<"u">>)
          /\ consonant # <<"j">> /\ consonant # <<"q">> /\ consonant # <<"x">>
  THEN IF rest = <<"u">>
       THEN [initial |-> consonant \o <<"u">>, final |-> << >>]
       ELSE [initial |-> consonant \o <<"u">>,
             final   |-> matchFinal(TrimPrefix(rest, <<"u">>), finals)]
  ELSE [initial |-> consonant, final |-> matchFinal(rest, finals)]

\* extractWithInitial whose j/q/x branch spells the glide "u" as u-umlaut in
\* the initial.
extractWithInitialJuUmlaut(consonant, rest, finals) ==
  IF Len(rest) = 0
  THEN [initial |-> consonant, final |-> << >>]
  ELSE IF consonant \in {<<"j">>, <<"q">>, <<"x">>} /\ HasPrefix(rest, <<"u">>)
  THEN IF rest = <<"u">>
       THEN [initial |-> consonant \o <<"u:">>, final |-> << >>]
       ELSE [initial |-> consonant \o <<"u:">>,
             final   |-> matchFinal(TrimPrefix(rest, <<"u">>), finals)]
  ELSE IF consonant \in {<<"j">>, <<"q">>, <<"x">>} /\ HasPrefix(rest, <<"i">>)
  THEN IF rest = <<"i">>
       THEN [initial |-> consonant \o <<"i">>, final |-> << >>]
       ELSE [initial |-> consonant \o <<"i">>,
             final   |-> matchFinal(TrimPrefix(rest, <<"i">>), finals)]
  ELSE IF HasPrefix(rest, <<"u:">>) \/ HasPrefix(rest, <<"v">>)
  THEN IF rest = <<"u:">> \/ rest = <<"v">>
       THEN [initial |-> consonant \o <<"u:">>, final |-> << >>]
       ELSE [initial |-> consonant \o <<"u:">>,
             final   |-> matchFinal(TrimPrefix(TrimPrefix(rest, <<"u:">>), <<"v">>),
                                    finals)]
  ELSE IF HasPrefix(rest, <<"i">>) /\ consonant \notin fakeI
  THEN IF rest = <<"i">>
       THEN [initial |-> consonant \o <<"i">>, final |-> << >>]
       ELSE [initial |-> consonant \o <<"i">>,
             final   |-> matchFinal(TrimPrefix(rest, <<"i">>), finals)]
  ELSE IF /\ HasPrefix(rest, <<"u">>)
          /\ consonant # <<"j">> /\ consonant # <<"q">> /\ consonant # <<"x">>
  THEN IF rest = <<"u">>
       THEN [initial |-> consonant \o <<"u">>, final |-> << >>]
       ELSE [initial |-> consonant \o <<"u">>,
             final   |-> matchFinal(TrimPrefix(rest, <<"u">>), finals)]
  ELSE [initial |-> consonant, final |-> matchFinal(rest, finals)]

\* extractWithInitial whose u-class branch leaves out the fake-i consonants.
extractWithInitialFakeU(consonant, rest, finals) ==
  IF Len(rest) = 0
  THEN [initial |-> consonant, final |-> << >>]
  ELSE IF consonant \in {<<"j">>, <<"q">>, <<"x">>} /\ HasPrefix(rest, <<"u">>)
  THEN IF rest = <<"u">>
       THEN [initial |-> consonant \o <<"u">>, final |-> << >>]
       ELSE [initial |-> consonant \o <<"u">>,
             final   |-> matchFinal(TrimPrefix(rest, <<"u">>), finals)]
  ELSE IF consonant \in {<<"j">>, <<"q">>, <<"x">>} /\ HasPrefix(rest, <<"i">>)
  THEN IF rest = <<"i">>
       THEN [initial |-> consonant \o <<"i">>, final |-> << >>]
       ELSE [initial |-> consonant \o <<"i">>,
             final   |-> matchFinal(TrimPrefix(rest, <<"i">>), finals)]
  ELSE IF HasPrefix(rest, <<"u:">>) \/ HasPrefix(rest, <<"v">>)
  THEN IF rest = <<"u:">> \/ rest = <<"v">>
       THEN [initial |-> consonant \o <<"u:">>, final |-> << >>]
       ELSE [initial |-> consonant \o <<"u:">>,
             final   |-> matchFinal(TrimPrefix(TrimPrefix(rest, <<"u:">>), <<"v">>),
                                    finals)]
  ELSE IF HasPrefix(rest, <<"i">>) /\ consonant \notin fakeI
  THEN IF rest = <<"i">>
       THEN [initial |-> consonant \o <<"i">>, final |-> << >>]
       ELSE [initial |-> consonant \o <<"i">>,
             final   |-> matchFinal(TrimPrefix(rest, <<"i">>), finals)]
  ELSE IF /\ HasPrefix(rest, <<"u">>)
          /\ consonant \notin fakeI
          /\ consonant # <<"j">> /\ consonant # <<"q">> /\ consonant # <<"x">>
  THEN IF rest = <<"u">>
       THEN [initial |-> consonant \o <<"u">>, final |-> << >>]
       ELSE [initial |-> consonant \o <<"u">>,
             final   |-> matchFinal(TrimPrefix(rest, <<"u">>), finals)]
  ELSE [initial |-> consonant, final |-> matchFinal(rest, finals)]

\* extractWithInitial(consonant, rest, finals) (initial, final string)
extractWithInitial(consonant, rest, finals) ==
  IF Len(rest) = 0
  THEN [initial |-> consonant, final |-> << >>]
  ELSE IF consonant \in {<<"j">>, <<"q">>, <<"x">>} /\ HasPrefix(rest, <<"u">>)
  THEN IF rest = <<"u">>
       THEN [initial |-> consonant \o <<"u">>, final |-> << >>]
       ELSE [initial |-> consonant \o <<"u">>,
             final   |-> matchFinal(TrimPrefix(rest, <<"u">>), finals)]
  ELSE IF consonant \in {<<"j">>, <<"q">>, <<"x">>} /\ HasPrefix(rest, <<"i">>)
  THEN IF rest = <<"i">>
       THEN [initial |-> consonant \o <<"i">>, final |-> << >>]
       ELSE [initial |-> consonant \o <<"i">>,
             final   |-> matchFinal(TrimPrefix(rest, <<"i">>), finals)]
  ELSE IF HasPrefix(rest, <<"u:">>) \/ HasPrefix(rest, <<"v">>)
  THEN IF rest = <<"u:">> \/ rest = <<"v">>
       THEN [initial |-> consonant \o <<"u:">>, final |-> << >>]
       ELSE [initial |-> consonant \o <<"u:">>,
             final   |-> matchFinal(TrimPrefix(TrimPrefix(rest, <<"u:">>), <<"v">>),
                                    finals)]
  ELSE IF HasPrefix(rest, <<"i">>) /\ consonant \notin fakeI
  THEN IF rest = <<"i">>
       THEN [initial |-> consonant \o <<"i">>, final |-> << >>]
       ELSE [initial |-> consonant \o <<"i">>,
             final   |-> matchFinal(TrimPrefix(rest, <<"i">>), finals)]
  ELSE IF /\ HasPrefix(rest, <<"u">>)
          /\ consonant # <<"j">> /\ consonant # <<"q">> /\ consonant # <<"x">>
  THEN IF rest = <<"u">>
       THEN [initial |-> consonant \o <<"u">>, final |-> << >>]
       ELSE [initial |-> consonant \o <<"u">>,
             final   |-> matchFinal(TrimPrefix(rest, <<"u">>), finals)]
  ELSE [initial |-> consonant, final |-> matchFinal(rest, finals)]

\* --------------------------------------------------- extractInitialFinal

\* consonantClusters left empty: no cluster is tried before the single
\* consonants.
consonantClustersNone == << >>

\* The slice literal consonantClusters of extractInitialFinal.
consonantClusters == << <<"z", "h">>, <<"c", "h">>, <<"s", "h">> >>

\* extractInitialFinal whose y rule strips the leading "y" only and leaves a
\* following "i" in what it gives to matchFinal.
extractInitialFinalKeepI(s) ==
  LET p == ToLower(s) IN
  IF HasPrefix(p, <<"y">>)
  THEN IF p = <<"y", "i">> \/ p = <<"y">>
       THEN [initial |-> <<"y">>, final |-> << >>]
       ELSE LET rest == TrimPrefix(p, <<"y">>)
            IN  [initial |-> <<"y">>,
                 final   |-> matchFinal(rest, hmmFinals)]
  ELSE IF HasPrefix(p, <<"w">>)
  THEN IF p = <<"w", "u">> \/ p = <<"w">>
       THEN [initial |-> <<"w">>, final |-> << >>]
       ELSE LET rest == TrimPrefix(p, <<"w">>)
            IN  [initial |-> <<"w">>,
                 final   |-> matchFinal(IF HasPrefix(rest, <<"u">>)
                                        THEN TrimPrefix(rest, <<"u">>)
                                        ELSE rest, hmmFinals)]
  ELSE IF HasPrefix(p, <<"y", "u">>)
  THEN IF p = <<"y", "u">>
       THEN [initial |-> <<"y", "u">>, final |-> << >>]
       ELSE [initial |-> <<"y", "u">>,
             final   |-> matchFinal(TrimPrefix(p, <<"y", "u">>), hmmFinals)]
  ELSE IF \E k \in 1..Len(consonantClusters) : HasPrefix(p, consonantClusters[k])
  THEN LET cc == consonantClusters[
                   CHOOSE k \in 1..Len(consonantClusters) :
                     /\ HasPrefix(p, consonantClusters[k])
                     /\ \A j \in 1..(k - 1) : ~HasPrefix(p, consonantClusters[j])]
       IN  extractWithInitial(cc, TrimPrefix(p, cc), hmmFinals)
  ELSE IF Len(p) > 0 /\ isConsonant(p[1])
  THEN extractWithInitial(<<p[1]>>, SubSeq(p, 2, Len(p)), hmmFinals)
  ELSE [initial |-> << >>, final |-> matchFinal(p, hmmFinals)]

\* The single-consonant test without its guard on the length.
nonEmptyUnguarded(p) == TRUE

\* The guard `len(pinyin) > 0` of the single-consonant test.
nonEmpty(p) == Len(p) > 0

\* Whether extractInitialFinal(s) panics.  Its only index expressions are
\* pinyin[0] and pinyin[1:] of the single-consonant test, which the y rule,
\* the w rule and the clusters return before; `&&` evaluates pinyin[0] only
\* when the guard holds, and pinyin[0] is out of range when len(pinyin) is 0.
extractInitialFinalPanics(s) ==
  LET p == ToLower(s) IN
  /\ ~HasPrefix(p, <<"y">>)
  /\ ~HasPrefix(p, <<"w">>)
  /\ ~\E k \in 1..Len(consonantClusters) : HasPrefix(p, consonantClusters[k])
  /\ nonEmpty(p)
  /\ Len(p) = 0

\* extractInitialFinal whose w rule does not strip the "u" that follows the
\* "w".
extractInitialFinalKeepU(s) ==
  LET p == ToLower(s) IN
  IF HasPrefix(p, <<"y">>)
  THEN IF p = <<"y", "i">> \/ p = <<"y">>
       THEN [initial |-> <<"y">>, final |-> << >>]
       ELSE LET rest == TrimPrefix(p, <<"y">>)
            IN  [initial |-> <<"y">>,
                 final   |-> matchFinal(IF HasPrefix(rest, <<"i">>)
                                        THEN TrimPrefix(rest, <<"i">>)
                                        ELSE rest, hmmFinals)]
  ELSE IF HasPrefix(p, <<"w">>)
  THEN IF p = <<"w", "u">> \/ p = <<"w">>
       THEN [initial |-> <<"w">>, final |-> << >>]
       ELSE LET rest == TrimPrefix(p, <<"w">>)
            IN  [initial |-> <<"w">>,
                 final   |-> matchFinal(rest, hmmFinals)]
  ELSE IF HasPrefix(p, <<"y", "u">>)
  THEN IF p = <<"y", "u">>
       THEN [initial |-> <<"y", "u">>, final |-> << >>]
       ELSE [initial |-> <<"y", "u">>,
             final   |-> matchFinal(TrimPrefix(p, <<"y", "u">>), hmmFinals)]
  ELSE IF \E k \in 1..Len(consonantClusters) : HasPrefix(p, consonantClusters[k])
  THEN LET cc == consonantClusters[
                   CHOOSE k \in 1..Len(consonantClusters) :
                     /\ HasPrefix(p, consonantClusters[k])
                     /\ \A j \in 1..(k - 1) : ~HasPrefix(p, consonantClusters[j])]
       IN  extractWithInitial(cc, TrimPrefix(p, cc), hmmFinals)
  ELSE IF nonEmpty(p) /\ isConsonant(p[1])
  THEN extractWithInitial(<<p[1]>>, SubSeq(p, 2, Len(p)), hmmFinals)
  ELSE [initial |-> << >>, final |-> matchFinal(p, hmmFinals)]

\* extractInitialFinal(pinyin) (initial, final string); p is the parameter
\* after `pinyin = strings.ToLower(pinyin)`.
extractInitialFinal(s) ==
  LET p == ToLower(s) IN
  IF HasPrefix(p, <<"y">>)
  THEN IF p = <<"y", "i">> \/ p = <<"y">>
       THEN [initial |-> <<"y">>, final |-> << >>]
       ELSE LET rest == TrimPrefix(p, <<"y">>)
            IN  [initial |-> <<"y">>,
                 final   |-> matchFinal(IF HasPrefix(rest, <<"i">>)
                                        THEN TrimPrefix(rest, <<"i">>)
                                        ELSE rest, hmmFinals)]
  ELSE IF HasPrefix(p, <<"w">>)
  THEN IF p = <<"w", "u">> \/ p = <<"w">>
       THEN [initial |-> <<"w">>, final |-> << >>]
       ELSE LET rest == TrimPrefix(p, <<"w">>)
            IN  [initial |-> <<"w">>,
                 final   |-> matchFinal(IF HasPrefix(rest, <<"u">>)
                                        THEN TrimPrefix(rest, <<"u">>)
                                        ELSE rest, hmmFinals)]
  ELSE IF HasPrefix(p, <<"y", "u">>)
  THEN IF p = <<"y", "u">>
       THEN [initial |-> <<"y", "u">>, final |-> << >>]
       ELSE [initial |-> <<"y", "u">>,
             final   |-> matchFinal(TrimPrefix(p, <<"y", "u">>), hmmFinals)]
  ELSE IF \E k \in 1..Len(consonantClusters) : HasPrefix(p, consonantClusters[k])
  THEN LET cc == consonantClusters[
                   CHOOSE k \in 1..Len(consonantClusters) :
                     /\ HasPrefix(p, consonantClusters[k])
                     /\ \A j \in 1..(k - 1) : ~HasPrefix(p, consonantClusters[j])]
       IN  extractWithInitial(cc, TrimPrefix(p, cc), hmmFinals)
  ELSE IF nonEmpty(p) /\ isConsonant(p[1])
  THEN extractWithInitial(<<p[1]>>, SubSeq(p, 2, Len(p)), hmmFinals)
  ELSE [initial |-> << >>, final |-> matchFinal(p, hmmFinals)]

\* ---------------------------------------------------------------- Parse

\* The zero value of ParsedPinyin.
ZeroParsedPinyin ==
  [Full |-> << >>, Initial |-> << >>, Final |-> << >>, Tone |-> 0]

\* Parse that fills the field Full after extractTone has reassigned pinyin.
ParseFullStripped ==
  /\ pc = "call"
  /\ \E toned \in {extractTone(arg)} :
       \E split \in {extractInitialFinal(toned.pinyin)} :
         /\ pinyin' = toned.pinyin
         /\ result' = [Full    |-> toned.pinyin,
                       Initial |-> split.initial,
                       Final   |-> split.final,
                       Tone    |-> toned.tone]
  /\ pc' = "done"
  /\ UNCHANGED <<arg, id, callerVars, tuiVars, viewVars>>

\* func (p *Parser) Parse(pinyin string) ParsedPinyin: the whole call.  It
\* ends at "done" with the value it returns, or at "panic" when an index
\* expression of extractInitialFinal is out of range.
Parse ==
  /\ pc = "call"
  /\ \E toned \in {extractTone(arg)} :
       /\ pinyin' = toned.pinyin
       /\ IF extractInitialFinalPanics(toned.pinyin)
          THEN /\ result' = [Full    |-> arg,
                             Initial |-> << >>,
                             Final   |-> << >>,
                             Tone    |-> toned.tone]
               /\ pc' = "panic"
          ELSE \E split \in {extractInitialFinal(toned.pinyin)} :
                 /\ result' = [Full    |-> arg,
                               Initial |-> split.initial,
                               Final   |-> split.final,
                               Tone    |-> toned.tone]
                 /\ pc' = "done"
  /\ UNCHANGED <<arg, id, callerVars, tuiVars, viewVars>>

\* ------------------------------------------------- GetActorID, GetSetID

\* strings.ReplaceAll(s, old, new) for a one-codepoint old and new.
ReplaceAll(s, old, new) ==
  [k \in 1..Len(s) |-> IF s[k] = old THEN new ELSE s[k]]

\* GetActorID that returns a non-empty initial as it is.
GetActorIDNoReplace(initial) ==
  IF initial = << >> THEN <<"n", "u", "l", "l">> ELSE initial

\* GetActorID(initial string) string
GetActorID(initial) ==
  IF initial = << >> THEN <<"n", "u", "l", "l">>
  ELSE ReplaceAll(initial, "u:", "v")

\* GetSetID without the test for the empty final.
GetSetIDNoNull(final) == final

\* GetSetID(final string) string
GetSetID(final) ==
  IF final = << >> THEN <<"n", "u", "l", "l">> ELSE final

\* A call of GetActorID(arg).
CallGetActorID ==
  /\ pc = "call"
  /\ id' = GetActorID(arg)
  /\ pc' = "actor"
  /\ UNCHANGED <<arg, pinyin, result, callerVars, tuiVars, viewVars>>

\* A call of GetSetID(arg).
CallGetSetID ==
  /\ pc = "call"
  /\ id' = GetSetID(arg)
  /\ pc' = "set"
  /\ UNCHANGED <<arg, pinyin, result, callerVars, tuiVars, viewVars>>

\* A call of matchFinal(arg, hmmFinals), as extractInitialFinal makes it.
CallMatchFinal ==
  /\ pc = "call"
  /\ id' = matchFinal(arg, hmmFinals)
  /\ pc' = "final"
  /\ UNCHANGED <<arg, pinyin, result, callerVars, tuiVars, viewVars>>

\* ------------------------------------------- several callers of Parse

\* How many goroutines call Parse on the one Parser.
NumCallers == 2

Callers == 1..NumCallers

\* What the callers parse: a syllable with a tone mark, the same without, one
\* with two marks.
CallerInputs ==
  { <<"m", "a3">>, <<"m", "a">>, <<"i2", "u:3">> }

\* The locals of extractTone kept in one place for all callers.
FrameShared(c) == 1

\* The stack frame that holds the locals of caller c's call of extractTone:
\* its own.
Frame(c) == c

\* tone left as the previous call had it.
ToneAtEntryKept(prev) == prev

\* `tone := hmm.ToneUnknown` at the entry of extractTone.
ToneAtEntry(prev) == ToneUnknown

\* No caller has called yet.
CallersIdle ==
  /\ callerPc = [c \in Callers |-> "idle"]
  /\ callerArg = [c \in Callers |-> << >>]
  /\ frames = [c \in Callers |-> [tone |-> ToneUnknown, result |-> << >>, k |-> 1]]
  /\ callerPinyin = [c \in Callers |-> << >>]
  /\ callerResult = [c \in Callers |-> ZeroParsedPinyin]
  /\ returned = {}

\* Caller c calls Parse(s): result := ParsedPinyin{Full: pinyin}, then the
\* entry of extractTone.
CallParse(c) ==
  /\ callerPc[c] = "idle"
  /\ \E s \in CallerInputs :
       /\ callerArg' = [callerArg EXCEPT ![c] = s]
       /\ callerResult' = [callerResult EXCEPT ![c] =
                             [ZeroParsedPinyin EXCEPT !.Full = s]]
  /\ frames' = [frames EXCEPT ![Frame(c)] =
                  [tone |-> ToneAtEntry(@.tone), result |-> << >>, k |-> 1]]
  /\ callerPc' = [callerPc EXCEPT ![c] = "tone"]
  /\ UNCHANGED <<callerPinyin, returned, callVars, tuiVars, viewVars>>

\* One iteration of `for _, r := range pinyin` of extractTone in caller c.
ToneLoopStep(c) ==
  /\ callerPc[c] = "tone"
  /\ frames[Frame(c)].k <= Len(callerArg[c])
  /\ \E r \in {callerArg[c][frames[Frame(c)].k]} :
       frames' = [frames EXCEPT ![Frame(c)] =
                   IF r \in DOMAIN toneMarks
                   THEN [tone   |-> toneMarks[r].tone,
                         result |-> Append(@.result, toneMarks[r].base),
                         k      |-> @.k + 1]
                   ELSE [tone   |-> @.tone,
                         result |-> Append(@.result, r),
                         k      |-> @.k + 1]]
  /\ UNCHANGED <<callerPc, callerArg, callerPinyin, callerResult, returned,
                 callVars, tuiVars, viewVars>>

\* The loop of extractTone is over in caller c: the default to Tone5, the
\* return, and Parse's `result.Tone, pinyin = extractTone(pinyin)`.
ToneReturn(c) ==
  /\ callerPc[c] = "tone"
  /\ frames[Frame(c)].k > Len(callerArg[c])
  /\ callerPinyin' = [callerPinyin EXCEPT ![c] = frames[Frame(c)].result]
  /\ callerResult' = [callerResult EXCEPT ![c].Tone =
                        IF frames[Frame(c)].tone = ToneUnknown
                        THEN Tone5 ELSE frames[Frame(c)].tone]
  /\ callerPc' = [callerPc EXCEPT ![c] = "split"]
  /\ UNCHANGED <<callerArg, frames, returned, callVars, tuiVars, viewVars>>

\* Parse's `result.Initial, result.Final = extractInitialFinal(pinyin)` in
\* caller c.
Split(c) ==
  /\ callerPc[c] = "split"
  /\ \E split \in {extractInitialFinal(callerPinyin[c])} :
       callerResult' = [callerResult EXCEPT ![c].Initial = split.initial,
                                            ![c].Final = split.final]
  /\ callerPc' = [callerPc EXCEPT ![c] = "ret"]
  /\ UNCHANGED <<callerArg, frames, callerPinyin, returned, callVars, tuiVars, viewVars>>

\* Parse's `return result` in caller c.
Return(c) ==
  /\ callerPc[c] = "ret"
  /\ returned' = returned \cup {[arg |-> callerArg[c], result |-> callerResult[c]]}
  /\ callerPc' = [callerPc EXCEPT ![c] = "idle"]
  /\ UNCHANGED <<callerArg, frames, callerPinyin, callerResult, callVars, tuiVars, viewVars>>

\* ------------------------------------------------------ the unified TUI

\* ViewType: ViewLookup ViewType = iota and the constants after it.
ViewLookup == 0
ViewBrowse == 1
ViewLearn == 2
ViewFilePicker == 3
ViewSettings == 4

\* The field View of each entry of menuItems, as NewApp builds the slice.
menuItems == <<ViewLookup, ViewBrowse, ViewLearn, ViewFilePicker, ViewSettings>>

\* msg.String() of the key presses the handlers tell apart, and of one key
\* that none of them names.
Keys ==
  { "ctrl+c", "q", "?", "esc", "1", "2", "3", "4", "5", "tab",
    "j", "down", "k", "up", "enter", "l", "right",
    " ", "n", "left", "h", "p", "r", "g", "y", "x" }

\* How many notes with Chinese characters a deck has at most.
MaxNotes == 2

\* How many .apkg files the deck directory holds.
MaxFiles == 2

\* How many Chinese characters the first note of the browsed deck has.
MaxChars == 2

\* How many characters are typed into the search box at most.
MaxTyped == 2

\* How many commands of the Browse view are outstanding at most.
MaxPending == 2

\* A loaded deck, as far as the Learn view goes: for each note that SetPackage
\* keeps, whether loadCurrentCard finds a character with a reading in it.
Decks == UNION { [1..n -> BOOLEAN] : n \in 0..MaxNotes }

\* What GenerateScene may return as the prompt.
Prompts == {"", "scene a", "scene b"}

\* LearnModel as NewLearnModel returns it; llmClient is "nil" when NewClient
\* found no API key.  character holds the index of the note it was loaded
\* from, and is empty for nil.
NewLearnModel(llmClient) ==
  [pkg           |-> "nil",
   notes         |-> << >>,
   currentNote   |-> 0,
   flipped       |-> FALSE,
   character     |-> << >>,
   llmClient     |-> llmClient,
   llmPrompt     |-> "",
   llmGenerating |-> FALSE,
   llmError      |-> "nil",
   copied        |-> FALSE]

\* func (m *LearnModel) loadCurrentCard()
loadCurrentCard(m) ==
  IF m.currentNote >= Len(m.notes) THEN m
  ELSE [m EXCEPT !.character =
          IF m.notes[m.currentNote + 1] THEN <<m.currentNote>> ELSE << >>]

\* func (m *LearnModel) SetPackage(pkg *anki.Package) for a pkg that is not
\* nil, the only kind AppModel.Update passes.
SetPackage(m, deck) ==
  LET set == [m EXCEPT !.pkg = "pkg", !.llmPrompt = "", !.flipped = FALSE,
                       !.notes = deck, !.currentNote = 0]
  IN  IF Len(deck) > 0 THEN loadCurrentCard(set) ELSE set

\* The key case " ", "enter" with the flag set instead of toggled.
flipSets(m) == [m EXCEPT !.flipped = TRUE]

\* The key case " ", "enter" of LearnModel.Update: flip card.
flip(m) == [m EXCEPT !.flipped = ~m.flipped]

\* The test `m.pkg == nil` at the head of LearnModel.Update.
noPackage(m) == m.pkg = "nil"

\* The test of the next-card case taken one position too far.
hasNextPastEnd(m) == m.currentNote < Len(m.notes)

\* The test `m.currentNote < len(m.notes)-1` of the case "right", "l", "n".
hasNext(m) == m.currentNote < Len(m.notes) - 1

\* The test of the case "g" without `m.flipped`.
canGenerateUnflipped(m) == m.character # << >> /\ ~m.llmGenerating

\* The test `m.flipped && m.character != nil && !m.llmGenerating` of the
\* case "g".
canGenerate(m) == m.flipped /\ m.character # << >> /\ ~m.llmGenerating

\* func (m LearnModel) Update(msg tea.Msg) (LearnModel, tea.Cmd) for a
\* tea.KeyMsg; clipboardOk is whether clipboard.Write succeeds.  The value is
\* the model and the command returned: "nil", "generate" (generateLLMPrompt)
\* or "tick" (learnClearCopiedAfter).
LearnUpdateKey(m, key, clipboardOk) ==
  IF noPackage(m) THEN [m |-> m, cmd |-> "nil"]
  ELSE IF key \in {" ", "enter"} THEN [m |-> flip(m), cmd |-> "nil"]
  ELSE IF key \in {"right", "l", "n"}
  THEN IF hasNext(m)
       THEN [m   |-> [loadCurrentCard([m EXCEPT !.currentNote = @ + 1])
                        EXCEPT !.flipped = FALSE, !.llmPrompt = "",
                               !.llmError = "nil"],
             cmd |-> "nil"]
       ELSE [m |-> m, cmd |-> "nil"]
  ELSE IF key \in {"left", "h", "p"}
  THEN IF m.currentNote > 0
       THEN [m   |-> [loadCurrentCard([m EXCEPT !.currentNote = @ - 1])
                        EXCEPT !.flipped = FALSE, !.llmPrompt = "",
                               !.llmError = "nil"],
             cmd |-> "nil"]
       ELSE [m |-> m, cmd |-> "nil"]
  ELSE IF key = "r"
  THEN [m   |-> [loadCurrentCard([m EXCEPT !.currentNote = 0])
                   EXCEPT !.flipped = FALSE, !.llmPrompt = ""],
        cmd |-> "nil"]
  ELSE IF key = "g"
  THEN IF canGenerate(m)
       THEN IF m.llmClient = "nil"
            THEN [m |-> [m EXCEPT !.llmError = "no key"], cmd |-> "nil"]
            ELSE [m   |-> [m EXCEPT !.llmGenerating = TRUE, !.llmError = "nil"],
                  cmd |-> "generate"]
       ELSE [m |-> m, cmd |-> "nil"]
  ELSE IF key = "y"
  THEN IF m.llmPrompt # "" /\ clipboardOk
       THEN [m |-> [m EXCEPT !.copied = TRUE], cmd |-> "tick"]
       ELSE [m |-> m, cmd |-> "nil"]
  ELSE [m |-> m, cmd |-> "nil"]

\* LearnModel.Update for a learnLLMResultMsg with the given prompt and err.
LearnUpdateLLMResult(m, prompt, err) ==
  IF noPackage(m) THEN m
  ELSE IF err # "nil"
       THEN [m EXCEPT !.llmGenerating = FALSE, !.llmError = err]
       ELSE [m EXCEPT !.llmGenerating = FALSE, !.llmPrompt = prompt]

\* LearnModel.Update for a learnClearCopiedMsg.
LearnUpdateClearCopied(m) ==
  IF noPackage(m) THEN m ELSE [m EXCEPT !.copied = FALSE]

\* AppModel as NewApp returns it (the fields that take part in navigation,
\* the help overlay and the Learn view).
NewApp(llmClient) ==
  [currentView   |-> ViewLookup,
   selectedMenu  |-> 0,
   sidebarActive |-> FALSE,
   showHelp      |-> FALSE,
   learnView     |-> NewLearnModel(llmClient)]

\* NewAppWithPackage: NewApp, then the deck set and the Browse view shown.
NewAppWithPackage(llmClient, deck) ==
  [NewApp(llmClient) EXCEPT !.learnView = SetPackage(@, deck),
                            !.currentView = ViewBrowse,
                            !.selectedMenu = 1]

\* The cases "1".."5" with the view of case "4" entered as that of case "5".
shortcutsSlip ==
  "1" :> [view |-> ViewLookup,   menu |-> 0] @@
  "2" :> [view |-> ViewBrowse,   menu |-> 1] @@
  "3" :> [view |-> ViewLearn,    menu |-> 2] @@
  "4" :> [view |-> ViewSettings, menu |-> 3] @@
  "5" :> [view |-> ViewSettings, menu |-> 4]

\* The cases "1".."5" of the global keys of AppModel.Update: what each
\* assigns to currentView and to selectedMenu.
shortcuts ==
  "1" :> [view |-> ViewLookup,     menu |-> 0] @@
  "2" :> [view |-> ViewBrowse,     menu |-> 1] @@
  "3" :> [view |-> ViewLearn,      menu |-> 2] @@
  "4" :> [view |-> ViewFilePicker, menu |-> 3] @@
  "5" :> [view |-> ViewSettings,   menu |-> 4]

\* AppModel.Update without the help overlay's test.
helpShownNever(m) == FALSE

\* The test `if m.showHelp` at the head of the tea.KeyMsg case.
helpShown(m) == m.showHelp

\* "Delegate to active view if not in sidebar mode" for a tea.KeyMsg.  entry
\* is what the file picker has selected: "file", "dir" or "none"; the other
\* views' own state is not part of the model.  The value is the model, the
\* command returned and `to`, the view whose Update was called, if any.
DelegateKey(m, key, clipboardOk, entry) ==
  IF m.sidebarActive THEN [m |-> m, cmd |-> "nil", to |-> << >>]
  ELSE IF m.currentView = ViewLearn
  THEN [m   |-> [m EXCEPT !.learnView =
                   LearnUpdateKey(m.learnView, key, clipboardOk).m],
        cmd |-> LearnUpdateKey(m.learnView, key, clipboardOk).cmd,
        to  |-> <<ViewLearn>>]
  ELSE IF m.currentView = ViewFilePicker
  THEN [m   |-> m,
        cmd |-> IF key \in {"enter", "l", "right"} /\ entry = "file"
                THEN "file" ELSE "nil",
        to  |-> <<ViewFilePicker>>]
  ELSE [m |-> m, cmd |-> "nil", to |-> <<m.currentView>>]

\* func (m AppModel) Update(msg tea.Msg) (tea.Model, tea.Cmd) for a
\* tea.KeyMsg.  cmd "quit" is tea.Quit.
AppUpdateKey(m, key, clipboardOk, entry) ==
  IF helpShown(m)
  THEN [m |-> [m EXCEPT !.showHelp = FALSE], cmd |-> "nil", to |-> << >>]
  ELSE IF key \in {"ctrl+c", "q"}
  THEN [m |-> m, cmd |-> "quit", to |-> << >>]
  ELSE IF key = "?"
  THEN [m |-> [m EXCEPT !.showHelp = TRUE], cmd |-> "nil", to |-> << >>]
  ELSE IF key = "esc"
  THEN IF m.sidebarActive
       THEN [m |-> m, cmd |-> "quit", to |-> << >>]
       ELSE [m |-> [m EXCEPT !.sidebarActive = TRUE], cmd |-> "nil", to |-> << >>]
  ELSE IF key \in DOMAIN shortcuts
  THEN [m   |-> [m EXCEPT !.currentView = shortcuts[key].view,
                          !.selectedMenu = shortcuts[key].menu,
                          !.sidebarActive = FALSE],
        cmd |-> "nil", to |-> << >>]
  ELSE IF key = "tab"
  THEN [m |-> [m EXCEPT !.sidebarActive = ~m.sidebarActive],
        cmd |-> "nil", to |-> << >>]
  ELSE IF m.sidebarActive /\ key \in {"j", "down"}
  THEN [m   |-> IF m.selectedMenu < Len(menuItems) - 1
                THEN [m EXCEPT !.selectedMenu = @ + 1] ELSE m,
        cmd |-> "nil", to |-> << >>]
  ELSE IF m.sidebarActive /\ key \in {"k", "up"}
  THEN [m   |-> IF m.selectedMenu > 0
                THEN [m EXCEPT !.selectedMenu = @ - 1] ELSE m,
        cmd |-> "nil", to |-> << >>]
  ELSE IF m.sidebarActive /\ key \in {"enter", "l", "right"}
  THEN [m   |-> [m EXCEPT !.currentView = menuItems[m.selectedMenu + 1],
                          !.sidebarActive = FALSE],
        cmd |-> "nil", to |-> << >>]
  ELSE DelegateKey(m, key, clipboardOk, entry)

\* The messages of commands that have not been delivered yet, with that of
\* the command cmd of this Update added.
Issued(left, cmd) ==
  IF cmd \in {"file", "generate", "tick"} THEN left \cup {cmd} ELSE left

\* The decks opened in the TUI: one of two notes, both with a character.
AppDecks == { <<TRUE, TRUE>> }

\* Whether clipboard.Write succeeds, for the one key that calls it.
ClipboardOutcomes(key) == IF key = "y" THEN BOOLEAN ELSE {TRUE}

\* What the file picker has selected, for the keys that open the selection.
PickerEntries(key) ==
  IF key \in {"enter", "l", "right"} THEN {"file", "dir", "none"} ELSE {"none"}

\* A key press reaches AppModel.Update.
UpdateKeyMsg ==
  /\ running
  /\ \E key \in Keys :
       \E r \in {AppUpdateKey(app, key, clipboardOk, entry) :
                   clipboardOk \in ClipboardOutcomes(key),
                   entry \in PickerEntries(key)} :
         /\ app' = r.m
         /\ running' = (r.cmd # "quit")
         /\ inFlight' = Issued(inFlight, r.cmd)
         /\ lastMsg' = [type |-> "key", key |-> key, to |-> r.to]
  /\ UNCHANGED <<learn, callVars, callerVars, viewVars>>

\* What is left in flight of one kind of message when one is delivered: none,
\* or more of the kind when its command was issued several times.
Delivered(kind) == {inFlight \ {kind}, inFlight}

\* The file picker's FileSelectedMsg reaches AppModel.Update, which returns
\* the command loadAnkiPackage.
UpdateFileSelectedMsg ==
  /\ running
  /\ "file" \in inFlight
  /\ \E left \in Delivered("file") : inFlight' = left \cup {"package"}
  /\ lastMsg' = [type |-> "file", key |-> "", to |-> << >>]
  /\ UNCHANGED <<app, running, learn, callVars, callerVars, viewVars>>

\* loadAnkiPackage's PackageLoadedMsg reaches AppModel.Update, with an error
\* or with a package.
UpdatePackageLoadedMsg ==
  /\ running
  /\ "package" \in inFlight
  /\ \E left \in Delivered("package") : inFlight' = left
  /\ \/ UNCHANGED app
     \/ \E deck \in AppDecks :
          app' = [app EXCEPT !.learnView = SetPackage(@, deck),
                             !.currentView = ViewBrowse,
                             !.selectedMenu = 1]
  /\ lastMsg' = [type |-> "package", key |-> "", to |-> << >>]
  /\ UNCHANGED <<running, learn, callVars, callerVars, viewVars>>

\* The keys that AppModel.Update handles itself whatever the focus; the
\* others reach the active view when the sidebar has no focus.
GlobalKeys == {"ctrl+c", "q", "?", "esc", "tab"} \cup DOMAIN shortcuts

\* AppModel.Update calls SetPackage on the Learn view for a package loaded.
LearnSetPackage ==
  /\ \E deck \in Decks : learn' = SetPackage(learn, deck)
  /\ lastMsg' = [type |-> "package", key |-> "", to |-> << >>]
  /\ UNCHANGED <<app, running, inFlight, callVars, callerVars, viewVars>>

\* LearnModel.Update is called with a key press.
LearnKeyMsg ==
  /\ \E key \in Keys \ GlobalKeys :
       \E r \in {LearnUpdateKey(learn, key, clipboardOk) :
                   clipboardOk \in ClipboardOutcomes(key)} :
         /\ learn' = r.m
         /\ inFlight' = Issued(inFlight, r.cmd)
         /\ lastMsg' = [type |-> "key", key |-> key, to |-> <<ViewLearn>>]
  /\ UNCHANGED <<app, running, callVars, callerVars, viewVars>>

\* LearnModel.Update is called with the learnLLMResultMsg of
\* generateLLMPrompt: a prompt, or an error.
LearnLLMResultMsg ==
  /\ "generate" \in inFlight
  /\ inFlight' = inFlight \ {"generate"}
  /\ \E res \in {[prompt |-> p, err |-> "nil"] : p \in Prompts}
                  \cup {[prompt |-> "", err |-> "api error"]} :
       learn' = LearnUpdateLLMResult(learn, res.prompt, res.err)
  /\ lastMsg' = [type |-> "llm", key |-> "", to |-> <<ViewLearn>>]
  /\ UNCHANGED <<app, running, callVars, callerVars, viewVars>>

\* LearnModel.Update is called with the learnClearCopiedMsg of
\* learnClearCopiedAfter.
LearnClearCopiedMsg ==
  /\ "tick" \in inFlight
  /\ \E left \in Delivered("tick") : inFlight' = left
  /\ learn' = LearnUpdateClearCopied(learn)
  /\ lastMsg' = [type |-> "tick", key |-> "", to |-> <<ViewLearn>>]
  /\ UNCHANGED <<app, running, callVars, callerVars, viewVars>>

\* The TUI has not been started.
NoApp ==
  /\ app = NewApp("nil")
  /\ learn = NewLearnModel("nil")
  /\ running = FALSE
  /\ inFlight = {}
  /\ lastMsg = [type |-> "none", key |-> "", to |-> << >>]

\* ---------------------------------------------------- the file picker

\* The directories of the file system the picker walks: the root, the home
\* directory, the deck directory ~/.config/hmm/anki (shown as one step below
\* home) and a directory that cannot be read.
Root == "/"
Home == "/home"
AnkiDir == "/home/anki"
LockedDir == "/home/locked"

\* filepath.Dir(dir)
Dir(dir) == IF dir \in {AnkiDir, LockedDir} THEN Home ELSE Root

\* A FileEntry.
FileEntry(name, isDir, path) == [Name |-> name, IsDir |-> isDir, Path |-> path]

\* What os.ReadDir(dir) gives, after loadDir has dropped the hidden files
\* and the files of other extensions and sorted the rest: the directories
\* and the files; err is set when the directory cannot be read.
ReadDir(dir) ==
  CASE dir = Root ->
         [err |-> "nil", dirs |-> <<FileEntry("home", TRUE, Home)>>,
          files |-> << >>]
    [] dir = Home ->
         [err |-> "nil",
          dirs |-> <<FileEntry("anki", TRUE, AnkiDir),
                     FileEntry("locked", TRUE, LockedDir)>>,
          files |-> << >>]
    [] dir = AnkiDir ->
         [err |-> "nil", dirs |-> << >>,
          files |-> [k \in 1..MaxFiles |->
                       FileEntry("deck", FALSE, <<AnkiDir, k>>)]]
    [] OTHER ->
         [err |-> "permission denied", dirs |-> << >>, files |-> << >>]

\* func (m *FilePickerModel) loadDir()
loadDir(m) ==
  LET read == ReadDir(m.currentDir)
      cleared == [m EXCEPT !.entries = << >>, !.selected = 0, !.offset = 0,
                           !.err = "nil"]
  IN  IF read.err # "nil"
      THEN [cleared EXCEPT !.err = read.err]
      ELSE [cleared EXCEPT !.entries =
              (IF m.currentDir # Root
               THEN <<FileEntry("..", TRUE, Dir(m.currentDir))>> ELSE << >>)
              \o read.dirs \o read.files]

\* func NewFilePickerModel() FilePickerModel, started in startDir; height is
\* what SetSize has stored.
NewFilePickerModel(startDir, height) ==
  loadDir([currentDir |-> startDir, entries |-> << >>, selected |-> 0,
           offset |-> 0, err |-> "nil", height |-> height])

\* func (m *FilePickerModel) getVisibleHeight() int
getVisibleHeight(m) == IF m.height - 8 < 5 THEN 5 ELSE m.height - 8

\* func (m *FilePickerModel) adjustScroll()
adjustScroll(m) ==
  LET up == IF m.selected < m.offset THEN [m EXCEPT !.offset = m.selected]
            ELSE m
  IN  IF up.selected >= up.offset + getVisibleHeight(up)
      THEN [up EXCEPT !.offset = up.selected - getVisibleHeight(up) + 1]
      ELSE up

\* The test `m.selected < len(m.entries)` before `m.entries[m.selected]`.
inEntries(m) == m.selected < Len(m.entries)

\* func (m FilePickerModel) Update(msg tea.Msg) (FilePickerModel, tea.Cmd)
\* for a tea.KeyMsg: the model and the command returned, or the panic of an
\* index out of range.
FilePickerUpdateKey(m, key) ==
  LET ret(v, c) == [m |-> v, cmd |-> c, panic |-> FALSE] IN
  IF key \in {"j", "down"}
  THEN IF m.selected < Len(m.entries) - 1
       THEN ret(adjustScroll([m EXCEPT !.selected = @ + 1]), "nil")
       ELSE ret(m, "nil")
  ELSE IF key \in {"k", "up"}
  THEN IF m.selected > 0
       THEN ret(adjustScroll([m EXCEPT !.selected = @ - 1]), "nil")
       ELSE ret(m, "nil")
  ELSE IF key \in {"enter", "l", "right"}
  THEN IF inEntries(m)
       THEN IF m.selected < 0
            THEN [m |-> m, cmd |-> "nil", panic |-> TRUE]
            ELSE LET entry == m.entries[m.selected + 1] IN
                 IF entry.IsDir
                 THEN ret(loadDir([m EXCEPT !.currentDir = entry.Path]), "nil")
                 ELSE ret(m, "file")
       ELSE ret(m, "nil")
  ELSE IF key \in {"backspace", "h"}
  THEN IF Dir(m.currentDir) # m.currentDir
       THEN ret(loadDir([m EXCEPT !.currentDir = Dir(m.currentDir)]), "nil")
       ELSE ret(m, "nil")
  ELSE IF key = "~"
  THEN ret(loadDir([m EXCEPT !.currentDir = Home]), "nil")
  ELSE IF key = "g"
  THEN ret([m EXCEPT !.selected = 0, !.offset = 0], "nil")
  ELSE IF key = "G"
  THEN ret(adjustScroll([m EXCEPT !.selected = Len(m.entries) - 1]), "nil")
  ELSE IF key = "ctrl+d"
  THEN LET moved == m.selected + (getVisibleHeight(m) \div 2)
       IN  ret(adjustScroll([m EXCEPT !.selected =
                               IF moved >= Len(m.entries)
                               THEN Len(m.entries) - 1 ELSE moved]), "nil")
  ELSE IF key = "ctrl+u"
  THEN LET moved == m.selected - (getVisibleHeight(m) \div 2)
       IN  ret(adjustScroll([m EXCEPT !.selected =
                               IF moved < 0 THEN 0 ELSE moved]), "nil")
  ELSE ret(m, "nil")

\* The keys the file picker is given: those of its Update and one it has no
\* case for.
PickerKeys ==
  { "j", "down", "k", "up", "enter", "l", "right", "backspace", "h", "~",
    "g", "G", "ctrl+d", "ctrl+u", "x" }

\* The heights SetSize has stored: none yet, and that of a small terminal.
PickerHeights == {0, 14}

\* FilePickerModel.Update is called with a key press.
PickerKeyMsg ==
  /\ ~picker.panicked
  /\ \E key \in PickerKeys :
       LET r == FilePickerUpdateKey(picker.m, key) IN
       /\ picker' = [m |-> r.m, panicked |-> r.panic]
       /\ inFlight' = Issued(inFlight, r.cmd)
       /\ lastMsg' = [type |-> "key", key |-> key, to |-> <<ViewFilePicker>>]
  /\ UNCHANGED <<browse, requests, app, running, learn, callVars, callerVars>>

\* ---------------------------------------------------- the Browse view

\* The deck browsed: note n has NoteChars[n] Chinese characters, the first
\* note MaxChars of them and every other note one, and one field whose text
\* is "a" for the first note and "b" for the others.
NoteChars == [n \in 1..MaxNotes |-> IF n = 1 THEN MaxChars ELSE 1]

NoteText(n) == IF n = 1 THEN <<"a">> ELSE <<"b">>

\* strings.Contains(text, term)
Contains(text, term) ==
  \E k \in 0..(Len(text) - Len(term)) :
    SubSeq(text, k + 1, k + Len(term)) = term

\* A map[int]string as the set of its (key, value) pairs: whether it has the
\* key i, its value at i, and the map with the value p stored at i.
HasKey(cp, i) == \E e \in cp : e[1] = i

ValueAt(cp, i) == (CHOOSE e \in cp : e[1] = i)[2]

Store(cp, i, p) == {e \in cp : e[1] # i} \cup {<<i, p>>}

\* m[i] of a map[int]string: the value at i, "" when the map has none.
PromptAt(cp, i) == IF HasKey(cp, i) THEN ValueAt(cp, i) ELSE << >>

\* func NewBrowseModel(...) BrowseModel.  A prompt is written as the
\* character (note, position) it was generated for, << >> is the empty
\* string.
NewBrowseModel(llmClient) ==
  [pkg             |-> "nil",
   notes           |-> << >>,
   filteredNotes   |-> << >>,
   currentNote     |-> 0,
   characters      |-> << >>,
   selected        |-> 0,
   searchInput     |-> << >>,
   searching       |-> FALSE,
   searchTerm      |-> << >>,
   llmClient       |-> llmClient,
   llmPrompt       |-> << >>,
   llmGenerating   |-> FALSE,
   llmError        |-> "nil",
   charPrompts     |-> {},
   batchGenerating |-> FALSE,
   batchTotal      |-> 0,
   batchCompleted  |-> 0,
   copied          |-> FALSE]

\* func (m *BrowseModel) loadCurrentNote()
loadCurrentNote(m) ==
  IF m.currentNote >= Len(m.filteredNotes) THEN m
  ELSE LET note == m.filteredNotes[m.currentNote + 1] IN
       [m EXCEPT !.characters = [k \in 1..NoteChars[note] |-> <<note, k>>],
                 !.selected = 0,
                 !.charPrompts = {},
                 !.batchGenerating = FALSE,
                 !.batchCompleted = 0,
                 !.batchTotal = 0]

\* func (m *BrowseModel) SetPackage(pkg *anki.Package) for a pkg that is not
\* nil, whose notes with Chinese characters are 1..MaxNotes.
BrowseSetPackage(m) ==
  LET set == [m EXCEPT !.pkg = "pkg", !.charPrompts = {}, !.llmPrompt = << >>,
                       !.searchTerm = << >>, !.searchInput = << >>,
                       !.notes = [n \in 1..MaxNotes |-> n],
                       !.filteredNotes = [n \in 1..MaxNotes |-> n],
                       !.currentNote = 0]
  IN  IF Len(set.notes) > 0 THEN loadCurrentNote(set) ELSE set

\* The notes of a sequence whose field contains the term in lower case, in
\* their order.
RECURSIVE Matching(_, _)
Matching(notes, term) ==
  IF notes = << >> THEN << >>
  ELSE IF Contains(ToLower(NoteText(Head(notes))), ToLower(term))
       THEN <<Head(notes)>> \o Matching(Tail(notes), term)
       ELSE Matching(Tail(notes), term)

\* func (m *BrowseModel) applyFilter()
applyFilter(m) ==
  LET filtered == [m EXCEPT !.filteredNotes =
                     IF m.searchTerm = << >> THEN m.notes
                     ELSE Matching(m.notes, m.searchTerm),
                   !.currentNote = 0]
  IN  IF Len(filtered.filteredNotes) > 0 THEN loadCurrentNote(filtered)
      ELSE [filtered EXCEPT !.characters = << >>]

\* The commands of the Browse view, each written as the message it will
\* deliver: the result of one generation ("llm") for a character, the result
\* of one generation of a batch ("batch") for the character at an index, the
\* stored prompt of a batch ("cached"), with the index at which the loop
\* found it and the last index of the loop and the prompts the map had for
\* the two when the batch started, and the tick that clears the copied flag
\* ("tick").
Request(kind, index, last, char, lastChar) ==
  [kind |-> kind, index |-> index, last |-> last, char |-> char,
   lastChar |-> lastChar]

\* func (m *BrowseModel) generateLLMPrompt() tea.Cmd
generateLLMPrompt(m) ==
  IF m.selected >= Len(m.characters) \/ m.llmClient = "nil" THEN {}
  ELSE {Request("llm", m.selected, m.selected, m.characters[m.selected + 1],
                << >>)}

\* func (m *BrowseModel) generateBatchPrompts() tea.Cmd
generateBatchPrompts(m) ==
  IF Len(m.characters) = 0 \/ m.llmClient = "nil" THEN {}
  ELSE LET last == Len(m.characters) - 1 IN
       { IF HasKey(m.charPrompts, i)
         THEN Request("cached", i, last, PromptAt(m.charPrompts, i),
                      PromptAt(m.charPrompts, last))
         ELSE Request("batch", i, i, m.characters[i + 1], << >>)
         : i \in 0..last }

\* textinput.Model.Update for a key press: a key that is one character is
\* added to the value while the value is shorter than CharLimit, backspace
\* removes the last character, any other key leaves the value.  CharLimit
\* is 50 in NewBrowseModel and MaxTyped here.
CharLimit == MaxTyped

TypedChars == {"a", "b", "q", "?", "1", "j", "/", "g", "B", "c"}

searchInputUpdate(value, key) ==
  IF key \in TypedChars
  THEN IF Len(value) < CharLimit THEN Append(value, key) ELSE value
  ELSE IF key = "backspace" /\ value # << >>
       THEN SubSeq(value, 1, Len(value) - 1)
       ELSE value

\* Selecting the character at index i: the prompt stored for it, or none.
selectChar(m, i) ==
  [m EXCEPT !.selected = i,
            !.llmPrompt = IF HasKey(m.charPrompts, i)
                          THEN ValueAt(m.charPrompts, i) ELSE << >>,
            !.llmError = "nil"]

\* The test of the case "B".
canBatch(m) ==
  Len(m.characters) > 0 /\ ~m.batchGenerating /\ ~m.llmGenerating

\* func (m BrowseModel) Update(msg tea.Msg) (BrowseModel, tea.Cmd) for a
\* tea.KeyMsg: the model and the commands returned.
BrowseUpdateKey(m, key, clipboardOk) ==
  LET ret(v, c) == [m |-> v, cmds |-> c] IN
  IF m.pkg = "nil" THEN ret(m, {})
  ELSE IF m.searching
  THEN IF key = "enter"
       THEN ret(applyFilter([m EXCEPT !.searching = FALSE,
                                      !.searchTerm = m.searchInput]), {})
       ELSE IF key = "esc"
       THEN ret([m EXCEPT !.searching = FALSE, !.searchInput = << >>], {})
       ELSE ret([m EXCEPT !.searchInput = searchInputUpdate(@, key)], {})
  ELSE IF key \in {"up", "k"}
  THEN IF m.currentNote > 0
       THEN ret([loadCurrentNote([m EXCEPT !.currentNote = @ - 1])
                   EXCEPT !.llmPrompt = << >>, !.llmError = "nil"], {})
       ELSE ret(m, {})
  ELSE IF key \in {"down", "j"}
  THEN IF m.currentNote < Len(m.filteredNotes) - 1
       THEN ret([loadCurrentNote([m EXCEPT !.currentNote = @ + 1])
                   EXCEPT !.llmPrompt = << >>, !.llmError = "nil"], {})
       ELSE ret(m, {})
  ELSE IF key \in {"left", "h"}
  THEN IF Len(m.characters) > 0 /\ m.selected > 0
       THEN ret(selectChar(m, m.selected - 1), {})
       ELSE ret(m, {})
  ELSE IF key \in {"right", "l"}
  THEN IF Len(m.characters) > 0 /\ m.selected < Len(m.characters) - 1
       THEN ret(selectChar(m, m.selected + 1), {})
       ELSE ret(m, {})
  ELSE IF key = "/"
  THEN ret([m EXCEPT !.searching = TRUE], {})
  ELSE IF key = "c"
  THEN LET cleared == [m EXCEPT !.searchTerm = << >>, !.searchInput = << >>,
                                !.filteredNotes = m.notes, !.currentNote = 0]
       IN  ret(IF Len(cleared.filteredNotes) > 0 THEN loadCurrentNote(cleared)
               ELSE cleared, {})
  ELSE IF key = "g"
  THEN IF Len(m.characters) > 0 /\ ~m.llmGenerating
       THEN IF m.llmClient = "nil"
            THEN ret([m EXCEPT !.llmError = "no key"], {})
            ELSE LET started == [m EXCEPT !.llmGenerating = TRUE,
                                          !.llmError = "nil"]
                 IN  ret(started, generateLLMPrompt(started))
       ELSE ret(m, {})
  ELSE IF key = "y"
  THEN IF m.llmPrompt # << >> /\ clipboardOk
       THEN ret([m EXCEPT !.copied = TRUE],
                {Request("tick", 0, 0, << >>, << >>)})
       ELSE ret(m, {})
  ELSE IF key = "B"
  THEN IF canBatch(m)
       THEN IF m.llmClient = "nil"
            THEN ret([m EXCEPT !.llmError = "no key"], {})
            ELSE LET started == [m EXCEPT !.batchGenerating = TRUE,
                                          !.batchTotal = Len(m.characters),
                                          !.batchCompleted = 0,
                                          !.llmError = "nil"]
                 IN  ret(started, generateBatchPrompts(started))
       ELSE ret(m, {})
  ELSE ret(m, {})

\* BrowseModel.Update for a browseLLMResultMsg with the given prompt and err.
BrowseUpdateLLMResult(m, prompt, err) ==
  IF m.pkg = "nil" THEN m
  ELSE IF err # "nil"
       THEN [m EXCEPT !.llmGenerating = FALSE, !.llmError = err]
       ELSE [m EXCEPT !.llmGenerating = FALSE, !.llmPrompt = prompt,
                      !.charPrompts = Store(@, m.selected, prompt)]

\* BrowseModel.Update for a browseBatchResultMsg with the given index, prompt
\* and err.
BrowseUpdateBatchResult(m, index, prompt, err) ==
  IF m.pkg = "nil" THEN m
  ELSE LET counted == [m EXCEPT !.batchCompleted = @ + 1]
           stored == IF err = "nil" /\ prompt # << >>
                     THEN [counted EXCEPT
                             !.charPrompts = Store(@, index, prompt),
                             !.llmPrompt = IF index = m.selected THEN prompt
                                           ELSE @]
                     ELSE counted
       IN  IF stored.batchCompleted >= stored.batchTotal
           THEN [stored EXCEPT
                   !.batchGenerating = FALSE,
                   !.llmPrompt = IF HasKey(stored.charPrompts, stored.selected)
                                 THEN ValueAt(stored.charPrompts, stored.selected)
                                 ELSE @]
           ELSE stored

\* BrowseModel.Update for a browseClearCopiedMsg.
BrowseUpdateClearCopied(m) ==
  IF m.pkg = "nil" THEN m ELSE [m EXCEPT !.copied = FALSE]

\* What a command of the Browse view delivers when it has run: the message's
\* kind, index, prompt and err.  A generation gives the prompt for its
\* character, or an error; a stored prompt of a batch is read from the map
\* by a goroutine while Update writes the map, with the loop's variable i
\* captured, so it may carry the index i or the last one and the value the
\* map had for it when the batch started or has now, "" when it has none.
Results(r, current) ==
  IF r.kind = "cached"
  THEN { [kind |-> "batch", index |-> r.index, prompt |-> p, err |-> "nil"] :
           p \in {r.char, PromptAt(current, r.index)} }
       \cup
       { [kind |-> "batch", index |-> r.last, prompt |-> p, err |-> "nil"] :
           p \in {r.lastChar, PromptAt(current, r.last)} }
  ELSE { [kind |-> r.kind, index |-> r.index, prompt |-> r.char, err |-> "nil"],
         [kind |-> r.kind, index |-> r.index, prompt |-> << >>,
          err |-> "api error"] }

\* BrowseModel.Update for the message res.
BrowseUpdateMsg(m, res) ==
  IF res.kind = "llm" THEN BrowseUpdateLLMResult(m, res.prompt, res.err)
  ELSE IF res.kind = "batch"
       THEN BrowseUpdateBatchResult(m, res.index, res.prompt, res.err)
       ELSE BrowseUpdateClearCopied(m)

\* The keys the Browse view is given when it is run on its own.
BrowseKeys == { "up", "down", "left", "right", "c", "g", "B" }

\* BrowseModel.Update is called with a key press.
BrowseKeyMsg ==
  /\ \E key \in BrowseKeys :
       LET r == BrowseUpdateKey(browse, key, TRUE) IN
       /\ Cardinality(requests \cup r.cmds) <= MaxPending
       /\ browse' = r.m
       /\ requests' = requests \cup r.cmds
  /\ UNCHANGED <<picker, tuiVars, callVars, callerVars>>

\* A command of the Browse view has run and BrowseModel.Update is called
\* with its message.
BrowseResultMsg ==
  /\ \E r \in requests :
       \E res \in Results(r, browse.charPrompts) :
         /\ browse' = BrowseUpdateMsg(browse, res)
         /\ requests' = requests \ {r}
  /\ UNCHANGED <<picker, tuiVars, callVars, callerVars>>

\* "Delegate to active view if not in sidebar mode": whether a message that
\* AppModel.Update has no case for is passed to the Update of the view.
delegated(m, view) == ~m.sidebarActive /\ m.currentView = view

\* The keys pressed in the unified TUI with an LLM client: those that
\* generate prompts in the Browse and Learn views and those that move
\* between the views and to the sidebar.
TuiKeys == { "2", "3", "tab", " ", "g", "B" }

\* The keys pressed in the unified TUI without an LLM client: those of the
\* Browse view's search and those that AppModel.Update handles itself.
SearchKeys == { "q", "?", "1", "/", "a", "enter", "esc" }

\* AppModel.Update for the press of a key, with the Browse view's Update
\* called when the key is passed to it.
UpdateKey(key) ==
  LET r == AppUpdateKey(app, key, TRUE, "none")
      b == IF r.to = <<ViewBrowse>> THEN BrowseUpdateKey(browse, key, TRUE)
           ELSE [m |-> browse, cmds |-> {}]
  IN  /\ Cardinality(requests \cup b.cmds) <= MaxPending
      /\ app' = r.m
      /\ running' = (r.cmd # "quit")
      /\ inFlight' = Issued(inFlight, r.cmd)
      /\ browse' = b.m
      /\ requests' = requests \cup b.cmds
      /\ lastMsg' = [type |-> "key", key |-> key, to |-> r.to]

\* A key press reaches AppModel.Update of the TUI with an LLM client.
TuiKeyMsg ==
  /\ running
  /\ \E key \in TuiKeys : UpdateKey(key)
  /\ UNCHANGED <<picker, learn, callVars, callerVars>>

\* A key press reaches AppModel.Update of the TUI without an LLM client.
SearchKeyMsg ==
  /\ running
  /\ \E key \in SearchKeys : UpdateKey(key)
  /\ UNCHANGED <<picker, learn, callVars, callerVars>>

\* The learnLLMResultMsg of the Learn view's generateLLMPrompt reaches
\* AppModel.Update: the Learn view gets it when it is the active view and
\* the sidebar has no focus, and nobody gets it otherwise.
TuiLearnResultMsg ==
  /\ running
  /\ "generate" \in inFlight
  /\ inFlight' = inFlight \ {"generate"}
  /\ \E res \in {[prompt |-> p, err |-> "nil"] : p \in Prompts}
                  \cup {[prompt |-> "", err |-> "api error"]} :
       app' = IF delegated(app, ViewLearn)
              THEN [app EXCEPT !.learnView =
                      LearnUpdateLLMResult(@, res.prompt, res.err)]
              ELSE app
  /\ lastMsg' = [type |-> "llm", key |-> "",
                 to |-> IF delegated(app, ViewLearn) THEN <<ViewLearn>>
                        ELSE << >>]
  /\ UNCHANGED <<running, learn, callVars, callerVars, viewVars>>

\* The message of a command of the Browse view reaches AppModel.Update: the
\* Browse view gets it when it is the active view and the sidebar has no
\* focus, and nobody gets it otherwise.
TuiBrowseResultMsg ==
  /\ running
  /\ \E r \in requests :
       \E res \in Results(r, browse.charPrompts) :
         /\ browse' = IF delegated(app, ViewBrowse)
                      THEN BrowseUpdateMsg(browse, res) ELSE browse
         /\ requests' = requests \ {r}
         /\ lastMsg' = [type |-> res.kind, key |-> "",
                        to |-> IF delegated(app, ViewBrowse)
                               THEN <<ViewBrowse>> ELSE << >>]
  /\ UNCHANGED <<picker, app, running, inFlight, learn, callVars, callerVars>>

\* No view is run on its own.
NoViews ==
  /\ picker = [m |-> NewFilePickerModel(Home, 0), panicked |-> FALSE]
  /\ browse = NewBrowseModel("nil")
  /\ requests = {}

\* --------------------------------------------------------- input domain

\* The six toneless vowels and, for each, the codepoint that carries tone
\* mark 1 (macron), 2 (acute), 3 (caron), 4 (grave) over it.
Vowels == {"a", "e", "i", "o", "u", "u:"}

WithMark ==
  "a"  :> <<"a1", "a2", "a3", "a4">> @@ "e"  :> <<"e1", "e2", "e3", "e4">> @@
  "i"  :> <<"i1", "i2", "i3", "i4">> @@ "o"  :> <<"o1", "o2", "o3", "o4">> @@
  "u"  :> <<"u1", "u2", "u3", "u4">> @@ "u:" :> <<"u:1", "u:2", "u:3", "u:4">>

\* The 24 tone-marked vowels.
MarkedVowels == { WithMark[v][t] : v \in Vowels, t \in 1..4 }

\* The syllables spelled initial + final, one per final.
Syl(ini, fins) == { ini \o f : f \in fins }

\* The syllables of standard Mandarin, in toneless pinyin spelling, by initial
\* (last: vowel-initial syllables and the y-, w- spellings).
Inventory ==
  Syl(<<"b">>, {<<"a">>, <<"o">>, <<"a", "i">>, <<"e", "i">>, <<"a", "o">>,
      <<"a", "n">>, <<"e", "n">>, <<"a", "n", "g">>, <<"e", "n", "g">>,
      <<"i">>, <<"i", "e">>, <<"i", "a", "o">>, <<"i", "a", "n">>, <<"i",
      "n">>, <<"i", "n", "g">>, <<"u">>})
  \cup
  Syl(<<"p">>, {<<"a">>, <<"o">>, <<"a", "i">>, <<"e", "i">>, <<"a", "o">>,
      <<"o", "u">>, <<"a", "n">>, <<"e", "n">>, <<"a", "n", "g">>, <<"e", "n",
      "g">>, <<"i">>, <<"i", "e">>, <<"i", "a", "o">>, <<"i", "a", "n">>,
      <<"i", "n">>, <<"i", "n", "g">>, <<"u">>})
  \cup
  Syl(<<"m">>, {<<"a">>, <<"o">>, <<"e">>, <<"a", "i">>, <<"e", "i">>, <<"a",
      "o">>, <<"o", "u">>, <<"a", "n">>, <<"e", "n">>, <<"a", "n", "g">>,
      <<"e", "n", "g">>, <<"i">>, <<"i", "e">>, <<"i", "a", "o">>, <<"i",
      "u">>, <<"i", "a", "n">>, <<"i", "n">>, <<"i", "n", "g">>, <<"u">>})
  \cup
  Syl(<<"f">>, {<<"a">>, <<"o">>, <<"e", "i">>, <<"o", "u">>, <<"a", "n">>,
      <<"e", "n">>, <<"a", "n", "g">>, <<"e", "n", "g">>, <<"u">>})
  \cup
  Syl(<<"d">>, {<<"a">>, <<"e">>, <<"a", "i">>, <<"e", "i">>, <<"a", "o">>,
      <<"o", "u">>, <<"a", "n">>, <<"e", "n">>, <<"a", "n", "g">>, <<"e", "n",
      "g">>, <<"o", "n", "g">>, <<"i">>, <<"i", "a">>, <<"i", "e">>, <<"i",
      "a", "o">>, <<"i", "u">>, <<"i", "a", "n">>, <<"i", "n", "g">>, <<"u">>,
      <<"u", "o">>, <<"u", "i">>, <<"u", "a", "n">>, <<"u", "n">>})
  \cup
  Syl(<<"t">>, {<<"a">>, <<"e">>, <<"a", "i">>, <<"a", "o">>, <<"o", "u">>,
      <<"a", "n">>, <<"a", "n", "g">>, <<"e", "n", "g">>, <<"o", "n", "g">>,
      <<"i">>, <<"i", "e">>, <<"i", "a", "o">>, <<"i", "a", "n">>, <<"i", "n",
      "g">>, <<"u">>, <<"u", "o">>, <<"u", "i">>, <<"u", "a", "n">>, <<"u",
      "n">>})
  \cup
  Syl(<<"n">>, {<<"a">>, <<"e">>, <<"a", "i">>, <<"e", "i">>, <<"a", "o">>,
      <<"o", "u">>, <<"a", "n">>, <<"e", "n">>, <<"a", "n", "g">>, <<"e", "n",
      "g">>, <<"o", "n", "g">>, <<"i">>, <<"i", "e">>, <<"i", "a", "o">>,
      <<"i", "u">>, <<"i", "a", "n">>, <<"i", "n">>, <<"i", "a", "n", "g">>,
      <<"i", "n", "g">>, <<"u">>, <<"u", "o">>, <<"u", "a", "n">>, <<"u:">>,
      <<"u:", "e">>})
  \cup
  Syl(<<"l">>, {<<"a">>, <<"o">>, <<"e">>, <<"a", "i">>, <<"e", "i">>, <<"a",
      "o">>, <<"o", "u">>, <<"a", "n">>, <<"a", "n", "g">>, <<"e", "n", "g">>,
      <<"o", "n", "g">>, <<"i">>, <<"i", "a">>, <<"i", "e">>, <<"i", "a",
      "o">>, <<"i", "u">>, <<"i", "a", "n">>, <<"i", "n">>, <<"i", "a", "n",
      "g">>, <<"i", "n", "g">>, <<"u">>, <<"u", "o">>, <<"u", "a", "n">>,
      <<"u", "n">>, <<"u:">>, <<"u:", "e">>})
  \cup
  Syl(<<"g">>, {<<"a">>, <<"e">>, <<"a", "i">>, <<"e", "i">>, <<"a", "o">>,
      <<"o", "u">>, <<"a", "n">>, <<"e", "n">>, <<"a", "n", "g">>, <<"e", "n",
      "g">>, <<"o", "n", "g">>, <<"u">>, <<"u", "a">>, <<"u", "o">>, <<"u",
      "a", "i">>, <<"u", "i">>, <<"u", "a", "n">>, <<"u", "n">>, <<"u", "a",
      "n", "g">>})
  \cup
  Syl(<<"k">>, {<<"a">>, <<"e">>, <<"a", "i">>, <<"e", "i">>, <<"a", "o">>,
      <<"o", "u">>, <<"a", "n">>, <<"e", "n">>, <<"a", "n", "g">>, <<"e", "n",
      "g">>, <<"o", "n", "g">>, <<"u">>, <<"u", "a">>, <<"u", "o">>, <<"u",
      "a", "i">>, <<"u", "i">>, <<"u", "a", "n">>, <<"u", "n">>, <<"u", "a",
      "n", "g">>})
  \cup
  Syl(<<"h">>, {<<"a">>, <<"e">>, <<"a", "i">>, <<"e", "i">>, <<"a", "o">>,
      <<"o", "u">>, <<"a", "n">>, <<"e", "n">>, <<"a", "n", "g">>, <<"e", "n",
      "g">>, <<"o", "n", "g">>, <<"u">>, <<"u", "a">>, <<"u", "o">>, <<"u",
      "a", "i">>, <<"u", "i">>, <<"u", "a", "n">>, <<"u", "n">>, <<"u", "a",
      "n", "g">>})
  \cup
  Syl(<<"j">>, {<<"i">>, <<"i", "a">>, <<"i", "e">>, <<"i", "a", "o">>, <<"i",
      "u">>, <<"i", "a", "n">>, <<"i", "n">>, <<"i", "a", "n", "g">>, <<"i",
      "n", "g">>, <<"i", "o", "n", "g">>, <<"u">>, <<"u", "e">>, <<"u", "a",
      "n">>, <<"u", "n">>})
  \cup
  Syl(<<"q">>, {<<"i">>, <<"i", "a">>, <<"i", "e">>, <<"i", "a", "o">>, <<"i",
      "u">>, <<"i", "a", "n">>, <<"i", "n">>, <<"i", "a", "n", "g">>, <<"i",
      "n", "g">>, <<"i", "o", "n", "g">>, <<"u">>, <<"u", "e">>, <<"u", "a",
      "n">>, <<"u", "n">>})
  \cup
  Syl(<<"x">>, {<<"i">>, <<"i", "a">>, <<"i", "e">>, <<"i", "a", "o">>, <<"i",
      "u">>, <<"i", "a", "n">>, <<"i", "n">>, <<"i", "a", "n", "g">>, <<"i",
      "n", "g">>, <<"i", "o", "n", "g">>, <<"u">>, <<"u", "e">>, <<"u", "a",
      "n">>, <<"u", "n">>})
  \cup
  Syl(<<"z", "h">>, {<<"a">>, <<"e">>, <<"i">>, <<"a", "i">>, <<"e", "i">>,
      <<"a", "o">>, <<"o", "u">>, <<"a", "n">>, <<"e", "n">>, <<"a", "n",
      "g">>, <<"e", "n", "g">>, <<"o", "n", "g">>, <<"u">>, <<"u", "a">>,
      <<"u", "o">>, <<"u", "a", "i">>, <<"u", "i">>, <<"u", "a", "n">>, <<"u",
      "n">>, <<"u", "a", "n", "g">>})
  \cup
  Syl(<<"c", "h">>, {<<"a">>, <<"e">>, <<"i">>, <<"a", "i">>, <<"a", "o">>,
      <<"o", "u">>, <<"a", "n">>, <<"e", "n">>, <<"a", "n", "g">>, <<"e", "n",
      "g">>, <<"o", "n", "g">>, <<"u">>, <<"u", "a">>, <<"u", "o">>, <<"u",
      "a", "i">>, <<"u", "i">>, <<"u", "a", "n">>, <<"u", "n">>, <<"u", "a",
      "n", "g">>})
  \cup
  Syl(<<"s", "h">>, {<<"a">>, <<"e">>, <<"i">>, <<"a", "i">>, <<"e", "i">>,
      <<"a", "o">>, <<"o", "u">>, <<"a", "n">>, <<"e", "n">>, <<"a", "n",
      "g">>, <<"e", "n", "g">>, <<"u">>, <<"u", "a">>, <<"u", "o">>, <<"u",
      "a", "i">>, <<"u", "i">>, <<"u", "a", "n">>, <<"u", "n">>, <<"u", "a",
      "n", "g">>})
  \cup
  Syl(<<"r">>, {<<"e">>, <<"i">>, <<"a", "o">>, <<"o", "u">>, <<"a", "n">>,
      <<"e", "n">>, <<"a", "n", "g">>, <<"e", "n", "g">>, <<"o", "n", "g">>,
      <<"u">>, <<"u", "a">>, <<"u", "o">>, <<"u", "i">>, <<"u", "a", "n">>,
      <<"u", "n">>})
  \cup
  Syl(<<"z">>, {<<"a">>, <<"e">>, <<"i">>, <<"a", "i">>, <<"e", "i">>, <<"a",
      "o">>, <<"o", "u">>, <<"a", "n">>, <<"e", "n">>, <<"a", "n", "g">>,
      <<"e", "n", "g">>, <<"o", "n", "g">>, <<"u">>, <<"u", "o">>, <<"u",
      "i">>, <<"u", "a", "n">>, <<"u", "n">>})
  \cup
  Syl(<<"c">>, {<<"a">>, <<"e">>, <<"i">>, <<"a", "i">>, <<"a", "o">>, <<"o",
      "u">>, <<"a", "n">>, <<"e", "n">>, <<"a", "n", "g">>, <<"e", "n", "g">>,
      <<"o", "n", "g">>, <<"u">>, <<"u", "o">>, <<"u", "i">>, <<"u", "a",
      "n">>, <<"u", "n">>})
  \cup
  Syl(<<"s">>, {<<"a">>, <<"e">>, <<"i">>, <<"a", "i">>, <<"a", "o">>, <<"o",
      "u">>, <<"a", "n">>, <<"e", "n">>, <<"a", "n", "g">>, <<"e", "n", "g">>,
      <<"o", "n", "g">>, <<"u">>, <<"u", "o">>, <<"u", "i">>, <<"u", "a",
      "n">>, <<"u", "n">>})
  \cup
  Syl(<< >>, {<<"a">>, <<"o">>, <<"e">>, <<"a", "i">>, <<"e", "i">>, <<"a",
      "o">>, <<"o", "u">>, <<"a", "n">>, <<"e", "n">>, <<"a", "n", "g">>,
      <<"e", "n", "g">>, <<"e", "r">>})
  \cup
  Syl(<<"y">>, {<<"i">>, <<"a">>, <<"e">>, <<"a", "o">>, <<"o", "u">>, <<"a",
      "n">>, <<"i", "n">>, <<"a", "n", "g">>, <<"i", "n", "g">>, <<"o", "n",
      "g">>, <<"u">>, <<"u", "e">>, <<"u", "a", "n">>, <<"u", "n">>})
  \cup
  Syl(<<"w">>, {<<"u">>, <<"a">>, <<"o">>, <<"a", "i">>, <<"e", "i">>, <<"a",
      "n">>, <<"e", "n">>, <<"a", "n", "g">>, <<"e", "n", "g">>})

\* s without tone mark, and s with one tone mark over any one of its vowels.
TonedForms(s) ==
  {s} \cup { [s EXCEPT ![k] = WithMark[s[k]][t]] :
               k \in {j \in 1..Len(s) : s[j] \in Vowels}, t \in 1..4 }

\* The codepoints of the exhaustively enumerated short strings: the letters
\* the rules branch on (y, w, the glides i, u, u-umlaut and v, the nasal coda
\* n, g), the plain vowels a, e, o, one consonant of each kind (h; the fake-i
\* consonants z, also the head of the cluster zh, and r; l; j), two
\* tone-marked vowels, an upper-case letter and an upper-case tone-marked
\* vowel.
Alphabet ==
  { "y", "w", "i", "u", "u:", "v", "n", "g", "a", "e", "o", "h", "z", "r",
    "l", "j", "i2", "u:3", "Z", "A3" }

\* The strings over Alphabet of length n.
StringsOfLen(n) == [1..n -> Alphabet]

\* The syllables of the inventory, each without tone mark and with one tone
\* mark over any one of its vowels.
InventoryInputs == UNION { TonedForms(s) : s \in Inventory }

\* Strings that are no syllable: more than six letters, several tone marks,
\* upper case, a tone digit, a hyphen, spaces, and the residual "iong" alone
\* and after a fake-i consonant.
OtherInputs ==
  { <<"z", "h", "u", "a", "n", "g", "z", "i">>,
    <<"x", "i", "a1", "n", "s", "h", "e", "n", "g">>,
    <<"n", "i3", "h", "a3", "o">>,
    <<"Z", "H", "O1", "N", "G">>,
    <<"L", "U:4">>,
    <<"h", "a", "o", "3">>,
    <<"l", "u:", "e", "4">>,
    <<"-">>,
    <<" ", "m", "a", " ">>,
    <<"i", "o", "n", "g">>,
    <<"z", "i", "o", "n", "g">> }

\* ------------------------------------------------------- specification

\* Parse, GetActorID or GetSetID is called with a syllable of the inventory,
\* toned or not, or with any string over Alphabet of at most MaxLen
\* codepoints.
Init ==
  /\ \/ arg \in InventoryInputs
     \/ arg \in OtherInputs
     \/ \E n \in 0..MaxLen : arg \in StringsOfLen(n)
  /\ pc = "call"
  /\ pinyin = arg
  /\ result = ZeroParsedPinyin
  /\ id = << >>
  /\ CallersIdle
  /\ NoApp
  /\ NoViews

Next ==
  \/ Parse
  \/ CallGetActorID
  \/ CallGetSetID
  \/ CallMatchFinal

Spec == Init /\ [][Next]_vars

\* Several callers use the one Parser, each calling Parse again and again,
\* their steps interleaved.
\* No function of package pinyin is called on its own.
NoCall ==
  /\ pc = "none"
  /\ arg = << >>
  /\ pinyin = << >>
  /\ result = ZeroParsedPinyin
  /\ id = << >>

CallersInit ==
  /\ CallersIdle
  /\ NoCall
  /\ NoApp
  /\ NoViews

CallersNext ==
  \/ \E c \in Callers : CallParse(c)
  \/ \E c \in Callers : ToneLoopStep(c)
  \/ \E c \in Callers : ToneReturn(c)
  \/ \E c \in Callers : Split(c)
  \/ \E c \in Callers : Return(c)

CallersSpec == CallersInit /\ [][CallersNext]_vars

\* The unified TUI without an LLM client: started by NewApp or by
\* NewAppWithPackage, then fed key presses and the messages of the commands
\* that open a deck.
AppInit ==
  /\ \/ app = NewApp("nil")
     \/ \E deck \in AppDecks : app = NewAppWithPackage("nil", deck)
  /\ learn = NewLearnModel("nil")
  /\ running = TRUE
  /\ inFlight = {}
  /\ lastMsg = [type |-> "none", key |-> "", to |-> << >>]
  /\ NoCall
  /\ CallersIdle
  /\ NoViews

AppNext ==
  \/ UpdateKeyMsg
  \/ UpdateFileSelectedMsg
  \/ UpdatePackageLoadedMsg

AppSpec == AppInit /\ [][AppNext]_vars

\* The Learn view on its own, with or without an LLM client: its Update is
\* called with the key presses that reach a view and with the messages of
\* its commands, and SetPackage with the decks that are opened.
LearnInit ==
  /\ \E llmClient \in {"nil", "client"} : learn = NewLearnModel(llmClient)
  /\ app = NewApp("nil")
  /\ running = FALSE
  /\ inFlight = {}
  /\ lastMsg = [type |-> "none", key |-> "", to |-> << >>]
  /\ NoCall
  /\ CallersIdle
  /\ NoViews

LearnNext ==
  \/ LearnSetPackage
  \/ LearnKeyMsg
  \/ LearnLLMResultMsg
  \/ LearnClearCopiedMsg

LearnSpec == LearnInit /\ [][LearnNext]_vars

\* The file picker on its own, started in the deck directory or in the home
\* directory: its Update is called with key presses.
PickerInit ==
  /\ \E startDir \in {AnkiDir, Home}, height \in PickerHeights :
       picker = [m |-> NewFilePickerModel(startDir, height), panicked |-> FALSE]
  /\ browse = NewBrowseModel("nil")
  /\ requests = {}
  /\ NoApp
  /\ NoCall
  /\ CallersIdle

PickerNext == PickerKeyMsg

PickerSpec == PickerInit /\ [][PickerNext]_vars

\* The Browse view on its own, with an LLM client and the deck open: its
\* Update is called with key presses and with the messages of its commands.
BrowseInit ==
  /\ browse = BrowseSetPackage(NewBrowseModel("client"))
  /\ requests = {}
  /\ picker = [m |-> NewFilePickerModel(Home, 0), panicked |-> FALSE]
  /\ NoApp
  /\ NoCall
  /\ CallersIdle

BrowseNext ==
  \/ BrowseKeyMsg
  \/ BrowseResultMsg

BrowseSpec == BrowseInit /\ [][BrowseNext]_vars

\* The unified TUI with an LLM client, started by NewAppWithPackage: key
\* presses and the messages of the views' commands reach AppModel.Update.
TuiInit ==
  /\ \E deck \in AppDecks : app = NewAppWithPackage("client", deck)
  /\ browse = BrowseSetPackage(NewBrowseModel("client"))
  /\ requests = {}
  /\ picker = [m |-> NewFilePickerModel(Home, 0), panicked |-> FALSE]
  /\ learn = NewLearnModel("nil")
  /\ running = TRUE
  /\ inFlight = {}
  /\ lastMsg = [type |-> "none", key |-> "", to |-> << >>]
  /\ NoCall
  /\ CallersIdle

TuiNext ==
  \/ TuiKeyMsg
  \/ TuiLearnResultMsg
  \/ TuiBrowseResultMsg

TuiSpec == TuiInit /\ [][TuiNext]_vars

\* The unified TUI without an LLM client, started by NewAppWithPackage: the
\* key presses of a search in the Browse view reach AppModel.Update.
SearchInit ==
  /\ \E deck \in AppDecks : app = NewAppWithPackage("nil", deck)
  /\ browse = BrowseSetPackage(NewBrowseModel("nil"))
  /\ requests = {}
  /\ picker = [m |-> NewFilePickerModel(Home, 0), panicked |-> FALSE]
  /\ learn = NewLearnModel("nil")
  /\ running = TRUE
  /\ inFlight = {}
  /\ lastMsg = [type |-> "none", key |-> "", to |-> << >>]
  /\ NoCall
  /\ CallersIdle

SearchNext == SearchKeyMsg

SearchSpec == SearchInit /\ [][SearchNext]_vars

\* ================================================================ claims

\* The 13 entries of the canonical final list.
CanonicalFinals == { hmmFinals[k] : k \in 1..Len(hmmFinals) }

\* The lower-cased, tone-stripped syllable that is classified.
Classified == ToLower(pinyin)

\* No codepoint of s other than the k-th is a tone-marked vowel.
OnlyMarkAt(s, k) == \A j \in 1..Len(s) : j # k => s[j] \notin MarkedVowels

\* The returned ParsedPinyin has this initial, final and tone.
Returns(initial, final, tone) ==
  /\ result.Initial = initial
  /\ result.Final = final
  /\ result.Tone = tone

\* C1: Parse returns tone 5 exactly when the input holds none of the 24
\* tone-marked vowels, and the tone of every result is in 1..5 (never the
\* sentinel 0).
C1_ToneFiveIffUnmarked ==
  pc = "done" =>
    /\ result.Tone \in 1..5
    /\ result.Tone = 5 <=> \A k \in 1..Len(arg) : arg[k] \notin MarkedVowels

\* C1 witness: a syllable of three unmarked letters was parsed to tone 5.
C1_Witness ==
  /\ pc = "done"
  /\ arg = <<"h", "a", "o">>
  /\ result.Tone = 5

\* The tone-mark table has 24 keys, and distinct keys have distinct
\* (base vowel, tone) pairs.
ToneMarksOneToOne ==
  /\ Cardinality(DOMAIN toneMarks) = 24
  /\ \A m1, m2 \in DOMAIN toneMarks : m1 # m2 => toneMarks[m1] # toneMarks[m2]

\* C2: for each of the 24 tone-marked vowels, Parse of a syllable whose only
\* diacritic is that vowel reports the tone of its mark, and the stripped
\* syllable, the one classification is given, has the base vowel in its
\* place; distinct marked vowels have distinct (base vowel, tone) pairs.
C2_MarkedVowelToneAndBase ==
  /\ ToneMarksOneToOne
  /\ pc = "done" =>
       \A k \in 1..Len(arg) :
         arg[k] \in MarkedVowels /\ OnlyMarkAt(arg, k) =>
           \A v \in Vowels, t \in 1..4 :
             arg[k] = WithMark[v][t] =>
               /\ result.Tone = t
               /\ Len(pinyin) = Len(arg)
               /\ pinyin[k] = v
               /\ [initial |-> result.Initial, final |-> result.Final]
                    = extractInitialFinal(pinyin)

\* C2 witness: a syllable whose only diacritic is e-grave was parsed to tone 4
\* with a plain e in its place.
C2_Witness ==
  /\ pc = "done"
  /\ \E k \in 1..Len(arg) :
       arg[k] = "e4" /\ OnlyMarkAt(arg, k) /\ pinyin[k] = "e"
  /\ result.Tone = 4

\* C3: every syllable that starts with "yu" gets initial "yu"; exactly "yu"
\* gets the empty final, any other the final matchFinal of the letters after
\* "yu" (the yu rule wins over the y rule).
C3_YuRuleFirst ==
  pc = "done" /\ HasPrefix(Classified, <<"y", "u">>) =>
    /\ result.Initial = <<"y", "u">>
    /\ result.Final =
         IF Classified = <<"y", "u">> THEN << >>
         ELSE matchFinal(SubSeq(Classified, 3, Len(Classified)), hmmFinals)

\* The base consonant of a classified syllable p: a cluster zh, ch, sh if p
\* starts with one, else its first letter if that is a consonant letter, else
\* none (the empty string).
ClusterSet == { <<"z", "h">>, <<"c", "h">>, <<"s", "h">> }

ConsonantLetters ==
  { "b", "p", "m", "f", "d", "t", "n", "l", "g", "k", "h", "j", "q", "x",
    "r", "z", "c", "s" }

BaseConsonant(p) ==
  IF Len(p) >= 2 /\ SubSeq(p, 1, 2) \in ClusterSet THEN SubSeq(p, 1, 2)
  ELSE IF Len(p) >= 1 /\ p[1] \in ConsonantLetters THEN <<p[1]>>
  ELSE << >>

\* What follows the base consonant in p.
Remainder(p) == SubSeq(p, Len(BaseConsonant(p)) + 1, Len(p))

\* The consonants after which "i" is no glide.
FakeIConsonants ==
  { <<"z", "h">>, <<"c", "h">>, <<"s", "h">>, <<"r">>, <<"z">>, <<"c">>, <<"s">> }

\* C4: when the base consonant is zh, ch, sh, r, z, c or s and the remainder
\* starts with "i", the initial is the bare consonant; sh + i-grave gives
\* initial "sh", empty final, tone 4.
C4_FakeI ==
  pc = "done" =>
    /\ ( /\ BaseConsonant(Classified) \in FakeIConsonants
         /\ HasPrefix(Remainder(Classified), <<"i">>) )
       => result.Initial = BaseConsonant(Classified)
    /\ arg = <<"s", "h", "i4">> => Returns(<<"s", "h">>, << >>, 4)

\* C4 witness: sh + i-grave was parsed, with initial "sh".
C4_Witness ==
  /\ pc = "done"
  /\ arg = <<"s", "h", "i4">>
  /\ result.Initial = <<"s", "h">>

\* C5: for every syllable of the inventory, toned or untoned, the returned
\* final is one of the 13 canonical finals or the empty string.
C5_InventoryFinalCanonical ==
  pc = "done" /\ arg \in InventoryInputs =>
    result.Final \in CanonicalFinals \cup { << >> }
\* C6 as claimed: Parse of n + u-umlaut-caron and Parse of "nv" both return
\* initial n + u-umlaut, empty final and tone 3.
C6_BothToneThree ==
  pc = "done" /\ arg \in { <<"n", "u:3">>, <<"n", "v">> } =>
    Returns(<<"n", "u:">>, << >>, 3)

\* C6 amended: Parse of n + u-umlaut-caron returns initial n + u-umlaut, empty
\* final and tone 3; Parse of "nv", which carries no tone mark, returns the
\* same initial and final with tone 5.
C6_UmlautAndAsciiSubstitute ==
  pc = "done" =>
    /\ arg = <<"n", "u:3">> => Returns(<<"n", "u:">>, << >>, 3)
    /\ arg = <<"n", "v">> => Returns(<<"n", "u:">>, << >>, 5)

\* C6 witness: "nv" was parsed to initial n + u-umlaut.
C6_Witness ==
  /\ pc = "done"
  /\ arg = <<"n", "v">>
  /\ result.Initial = <<"n", "u:">>

\* The four letters that open a glide.
GlideLetters == {"i", "u", "u:", "v"}

\* C7: when the base consonant (single or cluster) is followed by a remainder
\* that starts with none of i, u, u-umlaut, v, or with i after a fake-i
\* consonant, the initial is the consonant alone and the final is matchFinal
\* of the whole remainder; h + a-caron + o gives initial "h", final "ao",
\* tone 3.
C7_PlainInitial ==
  pc = "done" =>
    /\ LET c == BaseConsonant(Classified)
           rest == Remainder(Classified)
       IN  ( /\ c # << >>
             /\ \/ rest = << >>
                \/ rest # << >> /\ rest[1] \notin GlideLetters
                \/ rest # << >> /\ rest[1] = "i" /\ c \in FakeIConsonants )
           => /\ result.Initial = c
              /\ result.Final = matchFinal(rest, hmmFinals)
    /\ arg = <<"h", "a3", "o">> => Returns(<<"h">>, <<"a", "o">>, 3)

\* C7 witness: h + a-caron + o was parsed, with initial "h" and final "ao".
C7_Witness ==
  /\ pc = "done"
  /\ arg = <<"h", "a3", "o">>
  /\ result.Initial = <<"h">>
  /\ result.Final = <<"a", "o">>

\* C8: every syllable that starts with zh, ch or sh is classified with that
\* cluster as its base consonant: the initial is the cluster, alone or with
\* the glide u or u-umlaut, never the single letter z, c or s;
\* zh + o-macron + ng gives initial "zh", final "ong", tone 1.
C8_ClusterFirst ==
  pc = "done" =>
    /\ \A cc \in ClusterSet :
         HasPrefix(Classified, cc) =>
           result.Initial \in { cc, cc \o <<"u">>, cc \o <<"u:">> }
    /\ arg = <<"z", "h", "o1", "n", "g">> =>
         Returns(<<"z", "h">>, <<"o", "n", "g">>, 1)

\* C8 witness: zh + o-macron + ng was parsed, with initial "zh".
C8_Witness ==
  /\ pc = "done"
  /\ arg = <<"z", "h", "o1", "n", "g">>
  /\ result.Initial = <<"z", "h">>

AfterY(p) ==
  IF Len(p) >= 2 /\ p[2] = "i" THEN SubSeq(p, 3, Len(p))
  ELSE SubSeq(p, 2, Len(p))

C11_GetActorID ==
  pc = "actor" =>
    IF arg = << >> THEN id = <<"n", "u", "l", "l">>
    ELSE /\ Len(id) = Len(arg)
         /\ \A k \in 1..Len(arg) :
              id[k] = IF arg[k] = "u:" THEN "v" ELSE arg[k]
         /\ \A k \in 1..Len(id) : id[k] # "u:"

\* C11 witness: GetActorID returned for an initial that holds a u-umlaut after
\* another letter.
C11_Witness ==
  /\ pc = "actor"
  /\ Len(arg) = 2
  /\ arg[2] = "u:"
  /\ id[2] = "v"

\* C12: GetSetID returns "null" for the empty final and every non-empty final
\* unchanged.
C12_GetSetID ==
  pc = "set" =>
    id = IF arg = << >> THEN <<"n", "u", "l", "l">> ELSE arg

\* C12 witness: GetSetID returned "null" for the empty final.
C12_Witness ==
  /\ pc = "set"
  /\ arg = << >>
  /\ id = <<"n", "u", "l", "l">>

\* The codepoints of the model's universe.
Runes ==
  {UpperRunes[k] : k \in 1..Len(UpperRunes)} \cup
  {LowerRunes[k] : k \in 1..Len(LowerRunes)} \cup {"3", "4", "-", " "}

\* v is a string.
IsString(v) ==
  /\ DOMAIN v = 1..Len(v)
  /\ \A k \in 1..Len(v) : v[k] \in Runes

\* C13: Parse is total: whatever the input string (empty, one letter, no
\* pinyin, more than six letters) the call never ends in a panic, and what it
\* returns is a ParsedPinyin: three strings and a tone 1..5.
C13_ParseTotal ==
  /\ pc # "panic"
  /\ pc = "done" =>
       /\ DOMAIN result = {"Full", "Initial", "Final", "Tone"}
       /\ IsString(result.Full)
       /\ IsString(result.Initial)
       /\ IsString(result.Final)
       /\ result.Tone \in {Tone1, Tone2, Tone3, Tone4, Tone5}

\* C13 witness: Parse returned for the empty string, the input on which an
\* unguarded pinyin[0] would be out of range.
C13_Witness ==
  /\ pc = "done"
  /\ arg = << >>
  /\ result = [Full |-> << >>, Initial |-> << >>, Final |-> << >>,
               Tone |-> Tone5]

\* What Parse(s) returns when the call runs with no other beside it.
ParseAlone(s) ==
  [Full    |-> s,
   Initial |-> extractInitialFinal(extractTone(s).pinyin).initial,
   Final   |-> extractInitialFinal(extractTone(s).pinyin).final,
   Tone    |-> extractTone(s).tone]

\* C14: determinism: whatever calls of Parse were made before and in between,
\* by this caller or another, a call returns for an input string the Full,
\* Initial, Final and Tone that every earlier call returned for that string.
C14_SameInputSameResult ==
  /\ \A r1, r2 \in returned : r1.arg = r2.arg => r1.result = r2.result
  /\ \A c \in Callers :
       callerPc[c] = "ret" =>
         \A r \in returned : r.arg = callerArg[c] => r.result = callerResult[c]

\* C14 witness: a call is about to return for an input that was parsed
\* before, calls with other inputs, one of them with a tone mark, having
\* returned as well.
C14_Witness ==
  \E c \in Callers :
    /\ callerPc[c] = "ret"
    /\ callerArg[c] = <<"m", "a">>
    /\ [arg |-> callerArg[c], result |-> callerResult[c]] \in returned
    /\ \E r \in returned : r.arg = <<"m", "a3">> /\ r.result.Tone = Tone3

\* C16: under every interleaving of the callers' steps, each caller is
\* returned what its call returns when it runs alone.
C16_NoInterference ==
  \A c \in Callers :
    callerPc[c] = "ret" => callerResult[c] = ParseAlone(callerArg[c])

\* C16 witness: one caller is about to return tone 5 for an unmarked syllable
\* while another is in the middle of the loop of extractTone and has just
\* read a tone mark.
C16_Witness ==
  \E c, d \in Callers :
    /\ c # d
    /\ callerPc[c] = "ret"
    /\ callerArg[c] = <<"m", "a">>
    /\ callerResult[c].Tone = Tone5
    /\ callerPc[d] = "tone"
    /\ callerArg[d] = <<"i2", "u:3">>
    /\ frames[Frame(d)].k = 2
    /\ frames[Frame(d)].tone = Tone2

\* C15: the field Full of what Parse returns is the input string as it was
\* given, tone marks and letter case included, whatever the classification.
C15_FullIsInput ==
  pc = "done" => result.Full = arg

\* C15 witness: Parse returned for an input with an upper-case letter and a
\* tone mark; the mark was stripped for classification and Full still has
\* both.
C15_Witness ==
  /\ pc = "done"
  /\ ToLower(arg) # arg
  /\ pinyin # arg
  /\ \E k \in 1..Len(arg) : arg[k] \in MarkedVowels
  /\ result.Full = arg

\* The positions of s that hold a tone-marked vowel.
MarkedAt(s) == {k \in 1..Len(s) : s[k] \in MarkedVowels}

\* C17: when the input holds several tone-marked vowels, the tone Parse
\* reports is that of the rightmost one, and in the stripped syllable every
\* marked vowel is replaced by its base vowel, the other codepoints kept.
C17_LastMarkWins ==
  pc = "done" /\ Cardinality(MarkedAt(arg)) >= 2 =>
    /\ Len(pinyin) = Len(arg)
    /\ \A k \in 1..Len(arg) :
         IF k \in MarkedAt(arg)
         THEN \E v \in Vowels, t \in 1..4 :
                /\ arg[k] = WithMark[v][t]
                /\ pinyin[k] = v
                /\ (\A j \in MarkedAt(arg) : j <= k) => result.Tone = t
         ELSE pinyin[k] = arg[k]

\* C17 witness: a syllable with a tone 2 mark before a tone 3 mark was parsed
\* to tone 3.
C17_Witness ==
  /\ pc = "done"
  /\ \E j, k \in 1..Len(arg) :
       j < k /\ arg[j] = "i2" /\ arg[k] = "u:3" /\ MarkedAt(arg) = {j, k}
  /\ result.Tone = Tone3

\* The view that the README gives for each number key: Lookup View (1), Browse
\* View (2), Learn View (3), Open Deck (4), Settings (5).
NumberKeyView ==
  "1" :> ViewLookup @@ "2" :> ViewBrowse @@ "3" :> ViewLearn @@
  "4" :> ViewFilePicker @@ "5" :> ViewSettings

C20_SpaceFlips ==
  /\ [](learn.pkg # "nil" =>
          LearnUpdateKey(LearnUpdateKey(learn, " ", TRUE).m, " ", TRUE).m = learn)
  /\ [][ lastMsg'.type = "key" =>
           IF learn.pkg = "nil"
           THEN learn' = learn /\ inFlight' = inFlight
           ELSE lastMsg'.key = " " =>
                  /\ learn'.flipped = ~learn.flipped
                  /\ learn'.currentNote = learn.currentNote
                  /\ learn'.llmPrompt = learn.llmPrompt
                  /\ learn' = [learn EXCEPT !.flipped = learn'.flipped]
                  /\ inFlight' = inFlight ]_vars

\* C20 witness: Space was pressed last on the second card of a deck, a prompt
\* stored, and the card shows its back.
C20_Witness ==
  /\ lastMsg = [type |-> "key", key |-> " ", to |-> <<ViewLearn>>]
  /\ learn.pkg = "pkg"
  /\ learn.currentNote = 1
  /\ learn.llmPrompt = "scene a"
  /\ learn.flipped

\* C21: in the Learn view with a deck loaded, right moves to the next card
\* and left to the previous one, by one position, and change nothing at the
\* last and at the first card; r goes to the first card; the notes stay; and
\* whenever the deck has a note the card index is within 0..len(notes)-1.
C21_CardIndex ==
  /\ [](Len(learn.notes) >= 1 =>
          learn.currentNote \in 0..(Len(learn.notes) - 1))
  /\ [][ lastMsg'.type = "key" /\ learn.pkg # "nil" =>
           /\ learn'.notes = learn.notes
           /\ lastMsg'.key = "right" =>
                IF learn.currentNote = Len(learn.notes) - 1 \/ learn.notes = << >>
                THEN learn' = learn
                ELSE learn'.currentNote = learn.currentNote + 1
           /\ lastMsg'.key = "left" =>
                IF learn.currentNote = 0
                THEN learn' = learn
                ELSE learn'.currentNote = learn.currentNote - 1
           /\ lastMsg'.key = "r" => learn'.currentNote = 0 ]_vars

\* C21 witness: right was pressed last and the second card of a deck of two is
\* the current one.
C21_Witness ==
  /\ lastMsg = [type |-> "key", key |-> "right", to |-> <<ViewLearn>>]
  /\ learn.pkg = "pkg"
  /\ Len(learn.notes) = 2
  /\ learn.currentNote = 1
  /\ learn.character = <<1>>

\* C22: in the Learn view, a key press that changes the current card, and r
\* with a deck loaded, leave the card on its front with no prompt stored; a
\* generation is started by no key but g, and by g only when the card is
\* flipped, a character is loaded and no generation is running.
C22_CardChangeAndGenerate ==
  [][ lastMsg'.type = "key" =>
        /\ ( \/ learn'.currentNote # learn.currentNote
             \/ lastMsg'.key = "r" /\ learn.pkg # "nil" )
           => ~learn'.flipped /\ learn'.llmPrompt = ""
        /\ ( \/ learn'.llmGenerating /\ ~learn.llmGenerating
             \/ "generate" \in inFlight' \ inFlight )
           => /\ lastMsg'.key = "g"
              /\ learn.flipped
              /\ learn.character # << >>
              /\ ~learn.llmGenerating ]_vars

\* C22 witness: g was pressed last on a flipped card and a generation runs.
C22_Witness ==
  /\ lastMsg = [type |-> "key", key |-> "g", to |-> <<ViewLearn>>]
  /\ learn.flipped
  /\ learn.character # << >>
  /\ learn.llmGenerating
  /\ "generate" \in inFlight

JQX == { <<"j">>, <<"q">>, <<"x">> }

\* C24: when the base consonant is j, q or x, a remainder that starts with "u"
\* gives initial consonant + "u" (spelled with "u", not u-umlaut) and one that
\* starts with "i" gives initial consonant + "i"; the final is matchFinal of
\* the letters after that glide; "jun" gives initial "ju", final "en" and
\* "jia" gives initial "ji", final "a".
C24_JQXGlide ==
  pc = "done" =>
    /\ LET c == BaseConsonant(Classified)
           rest == Remainder(Classified)
       IN  c \in JQX =>
             /\ HasPrefix(rest, <<"u">>) =>
                  /\ result.Initial = c \o <<"u">>
                  /\ result.Final = matchFinal(Tail(rest), hmmFinals)
             /\ HasPrefix(rest, <<"i">>) =>
                  /\ result.Initial = c \o <<"i">>
                  /\ result.Final = matchFinal(Tail(rest), hmmFinals)
    /\ arg = <<"j", "u", "n">> => Returns(<<"j", "u">>, <<"e", "n">>, 5)
    /\ arg = <<"j", "i", "a">> => Returns(<<"j", "i">>, <<"a">>, 5)

\* C24 witness: "jun" was parsed, with initial "ju" and final "en".
C24_Witness ==
  /\ pc = "done"
  /\ arg = <<"j", "u", "n">>
  /\ result.Initial = <<"j", "u">>
  /\ result.Final = <<"e", "n">>

\* C25: when the remainder after the base consonant starts with u-umlaut or
\* with "v", and the j/q/x rule did not consume it, the initial is consonant +
\* u-umlaut and the final is matchFinal of the letters after that one glide
\* letter.
C25_UmlautGlide ==
  pc = "done" =>
    LET c == BaseConsonant(Classified)
        rest == Remainder(Classified)
    IN  ( /\ c # << >>
          /\ HasPrefix(rest, <<"u:">>) \/ HasPrefix(rest, <<"v">>) )
        => /\ result.Initial = c \o <<"u:">>
           /\ result.Final = matchFinal(Tail(rest), hmmFinals)

\* C26: when the base consonant is not j, q or x (the fake-i consonants
\* included) and the remainder starts with "u", the initial is consonant + "u"
\* and the final is matchFinal of the letters after that "u"; "zhu" gives
\* initial "zhu" with the empty final and "lun" gives initial "lu", final "en".
C26_UClassInitial ==
  pc = "done" =>
    /\ LET c == BaseConsonant(Classified)
           rest == Remainder(Classified)
       IN  ( /\ c # << >>
             /\ c \notin JQX
             /\ HasPrefix(rest, <<"u">>) )
           => /\ result.Initial = c \o <<"u">>
              /\ result.Final = matchFinal(Tail(rest), hmmFinals)
    /\ arg = <<"z", "h", "u">> => Returns(<<"z", "h", "u">>, << >>, 5)
    /\ arg = <<"l", "u", "n">> => Returns(<<"l", "u">>, <<"e", "n">>, 5)

\* C26 witness: "zhu", whose base consonant is a fake-i one, was parsed to
\* initial "zhu".
C26_Witness ==
  /\ pc = "done"
  /\ arg = <<"z", "h", "u">>
  /\ result.Initial = <<"z", "h", "u">>
  /\ result.Final = << >>

\* The syllable p, which starts with "w", without that "w" and one "u" that
\* follows it.
AfterW(p) ==
  IF Len(p) >= 2 /\ p[2] = "u" THEN SubSeq(p, 3, Len(p))
  ELSE SubSeq(p, 2, Len(p))

\* C27: "wu" and "w" get initial "w" and the empty final; every other syllable
\* that starts with "w" gets initial "w" and final matchFinal of the syllable
\* without the leading "w" and one following "u"; "wai" gives initial "w",
\* final "ai".
C27_WRule ==
  pc = "done" =>
    /\ HasPrefix(Classified, <<"w">>) =>
         /\ result.Initial = <<"w">>
         /\ result.Final =
              IF Classified \in { <<"w", "u">>, <<"w">> } THEN << >>
              ELSE matchFinal(AfterW(Classified), hmmFinals)
    /\ arg = <<"w", "a", "i">> => Returns(<<"w">>, <<"a", "i">>, 5)
    /\ arg = <<"w", "u", "a">> => Returns(<<"w">>, <<"a">>, 5)

\* C27 witness: a syllable that starts with "wu" and goes on was parsed by the
\* w rule to a non-empty final.
C27_Witness ==
  /\ pc = "done"
  /\ HasPrefix(Classified, <<"w", "u">>)
  /\ Len(Classified) > 2
  /\ result.Initial = <<"w">>
  /\ result.Final # << >>

\* C28: when the lower-cased, tone-stripped syllable starts with neither "y",
\* "w" nor a letter of the consonant set (the empty syllable included), Parse
\* returns the empty initial and final matchFinal of the whole syllable;
\* a-caron + n gives the empty initial, final "an", tone 3, and the empty
\* input gives the empty initial and the empty final.
C28_NullInitial ==
  pc = "done" =>
    /\ ( \/ Classified = << >>
         \/ /\ Classified # << >>
            /\ Classified[1] \notin {"y", "w"} \cup ConsonantLetters )
       => /\ result.Initial = << >>
          /\ result.Final = matchFinal(Classified, hmmFinals)
    /\ arg = <<"a3", "n">> => Returns(<< >>, <<"a", "n">>, 3)
    /\ arg = << >> => Returns(<< >>, << >>, 5)

\* C28 witness: a-caron + n was parsed to the empty initial and final "an".
C28_Witness ==
  /\ pc = "done"
  /\ arg = <<"a3", "n">>
  /\ result.Initial = << >>
  /\ result.Final = <<"a", "n">>

\* What is left of the syllable p after the initial the classification
\* consumes: after "y" and one "i", after "w" and one "u", after the base
\* consonant and the glide letter that joins it (an "i" after a fake-i
\* consonant joins nothing), or the whole of p when it has no initial.
AfterInitial(p) ==
  IF HasPrefix(p, <<"y">>) THEN AfterY(p)
  ELSE IF HasPrefix(p, <<"w">>) THEN AfterW(p)
  ELSE LET c == BaseConsonant(p)
           rest == Remainder(p)
       IN  IF /\ c # << >>
              /\ rest # << >>
              /\ rest[1] \in GlideLetters
              /\ ~(rest[1] = "i" /\ c \in FakeIConsonants)
           THEN Tail(rest)
           ELSE rest

C30_IngToEng ==
  pc = "done" =>
    /\ HasSuffix(AfterInitial(Classified), <<"i", "n", "g">>)
         => result.Final = <<"e", "n", "g">>
    /\ result.Final # <<"i", "n", "g">>

\* C31: matchFinal gives "en" for every residual that is or ends in "in" or
\* "un" and is no canonical final; so does Parse for what the classification
\* leaves of the syllable, and "yun" gets final "en".
C31_InUnToEn ==
  /\ ( /\ pc = "final"
       /\ HasSuffix(arg, <<"i", "n">>) \/ HasSuffix(arg, <<"u", "n">>)
       /\ arg \notin CanonicalFinals )
     => id = <<"e", "n">>
  /\ pc = "done" =>
       /\ LET rest == AfterInitial(Classified)
          IN  ( /\ HasSuffix(rest, <<"i", "n">>) \/ HasSuffix(rest, <<"u", "n">>)
                /\ rest \notin CanonicalFinals )
              => result.Final = <<"e", "n">>
       /\ arg = <<"y", "u", "n">> => Returns(<<"y">>, <<"e", "n">>, 5)

\* C31 witness: matchFinal was called with a residual of three letters that
\* ends in "in" and returned "en".
C31_Witness ==
  /\ pc = "final"
  /\ Len(arg) = 3
  /\ HasSuffix(arg, <<"i", "n">>)
  /\ id = <<"e", "n">>

\* C32: matchFinal gives "en" for the residual "n" and "eng" for the residual
\* "ng"; a syllable of a consonant, a glide "i" or "u" that joins the initial,
\* and "n" gets final "en", and one with "ng" gets final "eng"; l + i-acute +
\* n gives initial "li", final "en", tone 2.
C32_BareNasalCoda ==
  /\ pc = "final" /\ arg = <<"n">> => id = <<"e", "n">>
  /\ pc = "final" /\ arg = <<"n", "g">> => id = <<"e", "n", "g">>
  /\ pc = "done" =>
       /\ LET c == BaseConsonant(Classified)
              rest == Remainder(Classified)
          IN  ( /\ c # << >>
                /\ rest # << >>
                /\ rest[1] \in {"i", "u"}
                /\ AfterInitial(Classified) = Tail(rest) )
              => /\ Tail(rest) = <<"n">> => result.Final = <<"e", "n">>
                 /\ Tail(rest) = <<"n", "g">> => result.Final = <<"e", "n", "g">>
       /\ arg = <<"l", "i2", "n">> => Returns(<<"l", "i">>, <<"e", "n">>, 2)
       /\ arg = <<"l", "i", "n", "g">> =>
            Returns(<<"l", "i">>, <<"e", "n", "g">>, 5)

\* C32 witness: "ling" was parsed to initial "li" and final "eng".
C32_Witness ==
  /\ pc = "done"
  /\ arg = <<"l", "i", "n", "g">>
  /\ result.Initial = <<"l", "i">>
  /\ result.Final = <<"e", "n", "g">>

\* Whether rule k of matchFinal matches the residual: 1 exact match with a
\* final of the list, 2 "ing", 3 "in" or "un", 4 "iong", 5 "n" or "ng",
\* 6 empty or a bare glide, 7 none of them needed.
RuleMatches(k, rest) ==
  CASE k = 1 -> rest \in CanonicalFinals
    [] k = 2 -> HasSuffix(rest, <<"i", "n", "g">>)
    [] k = 3 -> HasSuffix(rest, <<"i", "n">>) \/ HasSuffix(rest, <<"u", "n">>)
    [] k = 4 -> HasSuffix(rest, <<"i", "o", "n", "g">>)
    [] k = 5 -> rest \in { <<"n">>, <<"n", "g">> }
    [] k = 6 -> rest \in { << >>, <<"i">>, <<"u">>, <<"u:">> }
    [] k = 7 -> TRUE

\* What rule k returns for a residual it matches.
RuleResult(k, rest) ==
  CASE k = 1 -> rest
    [] k = 2 -> <<"e", "n", "g">>
    [] k = 3 -> <<"e", "n">>
    [] k = 4 -> <<"o", "n", "g">>
    [] k = 5 -> IF rest = <<"n">> THEN <<"e", "n">> ELSE <<"e", "n", "g">>
    [] k = 6 -> << >>
    [] k = 7 -> rest

\* The first rule that matches the residual.
FirstRule(rest) ==
  CHOOSE k \in 1..7 :
    /\ RuleMatches(k, rest)
    /\ \A j \in 1..(k - 1) : ~RuleMatches(j, rest)

C34_ToneFrame ==
  pc = "done" =>
    /\ Len(pinyin) = Len(arg)
    /\ \A k \in 1..Len(arg) : arg[k] \notin MarkedVowels => pinyin[k] = arg[k]
    /\ (\A k \in 1..Len(arg) : arg[k] \notin MarkedVowels)
         => pinyin = arg /\ result.Tone = Tone5

\* C34 witness: a string with a tone-marked vowel between two other
\* codepoints, one of them an upper-case tone-marked vowel that is no key of
\* the table, was stripped of its one mark.
C34_Witness ==
  /\ pc = "done"
  /\ Len(arg) = 3
  /\ arg[1] = "A3"
  /\ arg[2] = "i2"
  /\ arg[3] = "n"
  /\ pinyin = <<"A3", "i", "n">>

\* C35: in the file picker the selected index is an index of the entry list
\* whenever the list is not empty, and no key press reads an entry outside
\* the list (no call of Update panics), also in a directory that could not be
\* read.
C35_PickerIndex ==
  /\ picker.m.entries # << >> =>
       picker.m.selected \in 0..(Len(picker.m.entries) - 1)
  /\ ~picker.panicked

\* C39: in the unified TUI the highlighted menu index is within 0..4, and
\* whenever the sidebar has no focus the highlighted menu item is the item of
\* the view that is shown.
C39_MenuTracksView ==
  /\ app.selectedMenu \in 0..(Len(menuItems) - 1)
  /\ ~app.sidebarActive => menuItems[app.selectedMenu + 1] = app.currentView

\* C37 (Browse view): every stored prompt charPrompts[i] was generated for
\* character i of the loaded note, and the displayed llmPrompt for the
\* selected character.  The code stores a result under the selection of the
\* moment it arrives, so this is violated: 'g' on the first character,
\* 'right', then the result.
C37_PromptOwner ==
  /\ \A e \in browse.charPrompts :
       /\ e[1] < Len(browse.characters)
       /\ e[2] = browse.characters[e[1] + 1]
  /\ browse.llmPrompt # << >> =>
       /\ browse.selected < Len(browse.characters)
       /\ browse.llmPrompt = browse.characters[browse.selected + 1]

\* C38: in the Browse view 0 <= batchCompleted <= batchTotal, and
\* batchGenerating holds only while results of the batch are outstanding.
\* The code resets the counters when another note is loaded and still counts
\* the results of the batch it left, so this is violated: 'B', 'down', then
\* a result of the batch.
C38_BatchCounters ==
  /\ 0 <= browse.batchCompleted
  /\ browse.batchCompleted <= browse.batchTotal
  /\ browse.batchGenerating =>
       /\ browse.batchCompleted < browse.batchTotal
       /\ \E r \in requests : r.kind \in {"batch", "cached"}

\* C36: in the unified TUI a view's llmGenerating (or batchGenerating) is set
\* only while a result of the generation is still to come, whatever keys are
\* pressed in between, so that the flag returns to false with the result.
\* AppModel.Update passes a result only to the active view and only while
\* the sidebar has no focus, so this is violated: 'g' in the Learn view,
\* '2' or Tab, then the result, which nobody gets.
C36_GenerationEnds ==
  /\ app.learnView.llmGenerating => "generate" \in inFlight
  /\ browse.llmGenerating => \E r \in requests : r.kind = "llm"
  /\ browse.batchGenerating => \E r \in requests : r.kind \in {"batch", "cached"}

\* C40: in the unified TUI, while the search box of the Browse view is
\* active, a typed character key is given to the search input and changes
\* nothing else.  AppModel.Update handles 'q', '?' and '1'..'5' itself
\* before the Browse view sees them, so this is violated: '/', then 'q'.
C40_SearchTyping ==
  [][ ( /\ running
        /\ browse.searching
        /\ delegated(app, ViewBrowse)
        /\ ~app.showHelp
        /\ lastMsg'.type = "key"
        /\ lastMsg'.key \in TypedChars )
      => /\ running'
         /\ app' = app
         /\ browse' = [browse EXCEPT
                         !.searchInput = searchInputUpdate(@, lastMsg'.key)] ]_vars

====
